---- MODULE Spec2Model ----
\* PSD layer saving / loading of APZmedia-ComfyUI-PSDtools: the psd-tools save path
\* (utils/apz_psd_tools_utility.py, nodes/apzPSDLayerSaverMultilayer.py) and the
\* loader (utils/apz_psd_loader_utility.py, nodes/apzPSDLayerLoader.py).
EXTENDS Integers, Sequences, FiniteSets, TLC

VARIABLES
    fs,                    \* the filesystem: path -> file contents (existing files only)
    dirs,                  \* the directories that exist
    PSD_TOOLS_AVAILABLE,   \* module flag set when psd_tools imported
    PYTOSHOP_AVAILABLE,    \* module flag set when pytoshop imported
    last,                  \* the record of the most recent call: op, args, ret, ...
    prev,                  \* the record of the call before it
    ncalls,                \* number of calls made so far
    inflight               \* the saves running concurrently: id -> position and locals

vars == <<fs, dirs, PSD_TOOLS_AVAILABLE, PYTOSHOP_AVAILABLE, last, prev, ncalls, inflight>>

\* ---------------------------------------------------------------- bounds

MaxCalls == 2        \* calls per behaviour
MaxSlots == 3        \* node layer slots that may be filled (the others stay None)
MaxW == 3            \* largest raster width drawn for the compositing inputs
MaxH == 3            \* largest raster height drawn for the compositing inputs
MaxLayers == 2       \* longest batch drawn for the compositing inputs
MaxIndex == 3        \* largest layer_index drawn for the loader
MaxCanvasCalls == 1  \* calls per behaviour of the compositing specification
MaxMaskW == 2        \* largest width of the rasters drawn pixel by pixel
MaxMaskH == 2        \* largest height of the rasters drawn pixel by pixel
MaxInvocations == 2  \* saves that run concurrently
MaxFiles == 4        \* largest number suffix of the files drawn as already existing
MaxPytoshopCalls == 1  \* runs of the pytoshop save nodes
MaxApplications == 1  \* applications of a function to drawn inputs in one behaviour
MaxSide == 4         \* largest height and width of the buffers given to the normalizers
MaxChannels == 5     \* largest channel count of those buffers

\* ---------------------------------------------------------------- program constants

DefaultCanvas == 512      \* calculate_canvas_size: "return 512, 512"
PlaceholderSize == 512    \* load_psd_layer: torch.zeros((1, 512, 512, 3))
NumSlots == 10            \* save_psd_layers: layer1 .. layer10
SafetyLimit == 999        \* _handle_overwrite_mode: "if counter > 999"
BackgroundSize == 512     \* save_8_layers_psd: "height, width = 512, 512"
NumLayers == 8            \* save_8_layers_psd: image_1 .. image_8

\* ---------------------------------------------------------------- values

NoneV == [kind |-> "None"]
IsNone(x) == x.kind = "None"

Raise(e) == [kind |-> "raise", exc |-> e]
IsRaise(x) == x.kind = "raise"

\* An image tensor whose samples all equal v.  A floating tensor's v is in
\* thousandths (v = 500 is 0.5); an integer tensor's v is the integer itself.
ImageTensor(shape, floating, v) ==
    [kind |-> "tensor", shape |-> shape, floating |-> floating, v |-> v]

\* A mask tensor; px[<<x, y>>] is the sample of the first batch item (and first
\* channel) at column x, row y, in the units of ImageTensor.
MaskTensor(shape, floating, px) ==
    [kind |-> "tensor", shape |-> shape, floating |-> floating, px |-> px]

\* Something that is not a tensor (it has no .cpu()).
NotATensor == [kind |-> "object"]

\* A Python list, and a string given for an optional argument (None otherwise)
List(items) == [kind |-> "list", items |-> items]
Str(s) == [kind |-> "str", s |-> s]

Coords(w, h) == (0 .. (w - 1)) \X (0 .. (h - 1))

Min(a, b) == IF a < b THEN a ELSE b
Max(a, b) == IF a > b THEN a ELSE b

Reverse(s) == [i \in 1 .. Len(s) |-> s[Len(s) + 1 - i]]

\* ---------------------------------------------------------------- Buffer Normalizer

\* torch.clamp(x, 0.0, 1.0); (x * 255).type(torch.uint8)   /   x.type(torch.uint8)
to_uint8(floating, v) ==
    IF floating
        THEN (Min(Max(v, 0), 1000) * 255) \div 1000
        ELSE v % 256

tensor_to_pil_image(image_tensor) ==
    IF image_tensor.kind # "tensor" THEN Raise("AttributeError")
    ELSE
    LET s0 == image_tensor.shape
        \* [B, C, H, W] -> [B, H, W, C] when shape[1] in [1, 3, 4]
        s == IF Len(s0) = 4 /\ s0[2] \in {1, 3, 4}
                 THEN <<s0[1], s0[3], s0[4], s0[2]>>
                 ELSE s0
    IN  IF Len(s) < 4 THEN Raise("IndexError")     \* img_np.shape[2] of a 2-D array
        ELSE
        LET H == s[2]
            W == s[3]
            C == s[4]
            u == to_uint8(image_tensor.floating, image_tensor.v)
            \* 1 channel replicated, 4th dropped, more truncated, fewer zero-padded
            rgb == IF C = 2 THEN <<u, u, 0>> ELSE <<u, u, u>>
        IN  [kind |-> "image", mode |-> "RGB", width |-> W, height |-> H,
             px |-> [p \in Coords(W, H) |-> rgb]]

tensor_to_pil_mask(mask_tensor) ==
    IF mask_tensor.kind # "tensor" THEN Raise("AttributeError")
    ELSE
    LET s0 == mask_tensor.shape
        \* [B, 1, H, W] squeezed, [B, 3, H, W] first channel; [B, H, W] kept
        s == IF Len(s0) = 4 /\ s0[2] \in {1, 3}
                 THEN <<s0[1], s0[3], s0[4]>>
                 ELSE s0
        H == s[2]
        W == s[3]
    IN  [kind |-> "image", mode |-> "L", width |-> W, height |-> H,
         px |-> [p \in Coords(W, H) |->
                    to_uint8(mask_tensor.floating, mask_tensor.px[p])]]

\* ---------------------------------------------------------------- Canvas Compositor

RECURSIVE max_width(_)
max_width(images) ==
    IF Len(images) = 1 THEN images[1].width
    ELSE Max(images[1].width, max_width(Tail(images)))

RECURSIVE max_height(_)
max_height(images) ==
    IF Len(images) = 1 THEN images[1].height
    ELSE Max(images[1].height, max_height(Tail(images)))

calculate_canvas_size_first(images) ==
    IF images = <<>> THEN <<DefaultCanvas, DefaultCanvas>>
    ELSE <<images[1].width, images[1].height>>

calculate_canvas_size(images) ==
    IF images = <<>> THEN <<DefaultCanvas, DefaultCanvas>>
    ELSE <<max_width(images), max_height(images)>>

\* image.convert('RGBA') of an RGB image: alpha 255 everywhere
convert_RGBA(image) ==
    IF image.mode = "RGBA" THEN image
    ELSE [kind |-> "image", mode |-> "RGBA", width |-> image.width, height |-> image.height,
          px |-> [p \in Coords(image.width, image.height) |->
                     [rgb |-> image.px[p], a |-> 255]]]

resize_image_to_canvas_topleft(image, canvas_width, canvas_height) ==
    LET im == convert_RGBA(image)
    IN  [kind |-> "image", mode |-> "RGBA", width |-> canvas_width, height |-> canvas_height,
         px |-> [p \in Coords(canvas_width, canvas_height) |->
                    IF p[1] < im.width /\ p[2] < im.height
                        THEN im.px[p]
                        ELSE [rgb |-> <<0, 0, 0>>, a |-> 0]]]

resize_image_to_canvas(image, canvas_width, canvas_height) ==
    LET im == convert_RGBA(image)
        x == (canvas_width - im.width) \div 2
        y == (canvas_height - im.height) \div 2
        inside(p) == /\ x <= p[1] /\ p[1] < x + im.width
                     /\ y <= p[2] /\ p[2] < y + im.height
    IN  \* Image.new('RGBA', size, (0, 0, 0, 0)); canvas.paste(image, (x, y), image):
        \* the image's own alpha is the paste mask (255 copies the pixel, 0 keeps
        \* the canvas; im comes from an RGB image, so no alpha lies in between)
        [kind |-> "image", mode |-> "RGBA", width |-> canvas_width, height |-> canvas_height,
         px |-> [p \in Coords(canvas_width, canvas_height) |->
                    IF inside(p) /\ im.px[<<p[1] - x, p[2] - y>>].a = 255
                        THEN im.px[<<p[1] - x, p[2] - y>>]
                        ELSE [rgb |-> <<0, 0, 0>>, a |-> 0]]]

\* mask.resize(size, Image.LANCZOS).  The resampling kernel is normalised, so a
\* constant raster stays that constant; the inputs drawn below give a mask whose
\* size differs from its target a single sample value, and only that case is
\* evaluated here.
resize_LANCZOS(mask, width, height) ==
    IF mask.width = width /\ mask.height = height THEN mask
    ELSE [kind |-> "image", mode |-> "L", width |-> width, height |-> height,
          px |-> [p \in Coords(width, height) |-> mask.px[<<0, 0>>]]]

\* apply_mask_to_image with the mask thresholded at mid-grey
apply_mask_to_image_binary(image, mask) ==
    LET im == convert_RGBA(image)
    IN  [kind |-> "image", mode |-> "RGBA", width |-> im.width, height |-> im.height,
         px |-> [p \in Coords(im.width, im.height) |->
                    [rgb |-> im.px[p].rgb, a |-> IF mask.px[p] >= 128 THEN 255 ELSE 0]]]

apply_mask_to_image(image, mask) ==
    LET im == convert_RGBA(image)
        m == IF mask.width # im.width \/ mask.height # im.height
                 THEN resize_LANCZOS(mask, im.width, im.height)
                 ELSE mask
    IN  \* r, g, b, a = image.split(); Image.merge('RGBA', (r, g, b, mask))
        [kind |-> "image", mode |-> "RGBA", width |-> im.width, height |-> im.height,
         px |-> [p \in Coords(im.width, im.height) |->
                    [rgb |-> im.px[p].rgb, a |-> m.px[p]]]]

\* ---------------------------------------------------------------- PSD Assembler

check_psd_tools_available ==
    IF ~PSD_TOOLS_AVAILABLE THEN Raise("ImportError") ELSE NoneV

\* PixelLayer.frompil(pil_image, temp_psd, layer_name): a pixel layer with the
\* image's R, G, B and transparency channels and no mask record.
PixelLayer_frompil(pil_image, layer_name) ==
    [kind |-> "PixelLayer", name |-> layer_name, image |-> pil_image,
     mask_data |-> NoneV,
     channels |-> {"RED", "GREEN", "BLUE", "TRANSPARENCY_MASK"}]

create_simple_psd_layer_unmasked(pil_image, layer_name, pil_mask) ==
    IF IsRaise(check_psd_tools_available) THEN check_psd_tools_available
    ELSE PixelLayer_frompil(convert_RGBA(pil_image), layer_name)

create_simple_psd_layer(pil_image, layer_name, pil_mask) ==
    IF IsRaise(check_psd_tools_available) THEN check_psd_tools_available
    ELSE
    LET im == IF ~IsNone(pil_mask)
                  THEN LET m == IF pil_mask.width # pil_image.width
                                       \/ pil_mask.height # pil_image.height
                                    THEN resize_LANCZOS(pil_mask, pil_image.width,
                                                        pil_image.height)
                                    ELSE pil_mask
                       IN  apply_mask_to_image(pil_image, m)
                  ELSE convert_RGBA(pil_image)
    IN  PixelLayer_frompil(im, layer_name)

create_psd_from_layers_in_order(layers, canvas_width, canvas_height) ==
    [kind |-> "psd", width |-> canvas_width, height |-> canvas_height,
     layers |-> layers]

\* psd = PSDImage.new(...); for layer in reversed(layers): psd.append(layer)
create_psd_from_layers(layers, canvas_width, canvas_height) ==
    [kind |-> "psd", width |-> canvas_width, height |-> canvas_height,
     layers |-> Reverse(layers)]

\* A file path os.path.join(dir, name) where name is
\*   "{prefix}.psd"            (suffix "base"),
\*   "{prefix}_{n:03d}.psd"    (suffix "num"), or
\*   "{prefix}_{timestamp}.psd" (suffix "time", n the time of the call).
Path(dir, prefix, suffix, n) ==
    [dir |-> dir, prefix |-> prefix, suffix |-> suffix, n |-> n]

\* the empty string returned as a path
EmptyPath == Path("", "", "base", 0)

Corrupt == [kind |-> "corrupt"]

\* os.path.exists(path)
exists(files, path) == path \in DOMAIN files

\* Writing `contents` at `path`
WriteFile(files, path, contents) ==
    [q \in (DOMAIN files) \cup {path} |-> IF q = path THEN contents ELSE files[q]]

\* save_psd_file that reports success whatever happened
save_psd_file_optimistic(files, psd, filepath, io) ==
    CASE io = "open_fails"  -> [ok |-> TRUE, files |-> files]
      [] io = "write_fails" -> [ok |-> TRUE, files |-> WriteFile(files, filepath, Corrupt)]
      [] OTHER              -> [ok |-> TRUE, files |-> WriteFile(files, filepath, psd)]

\* save_psd_file: psd.save(filepath) inside try/except; io is what the file
\* system does to this call: with "open_fails" (no permission, bad path) no
\* file is created, with "write_fails" the file is created and left
\* incomplete, otherwise the write succeeds.
save_psd_file(files, psd, filepath, io) ==
    CASE io = "open_fails"  -> [ok |-> FALSE, files |-> files]
      [] io = "write_fails" -> [ok |-> FALSE, files |-> WriteFile(files, filepath, Corrupt)]
      [] OTHER              -> [ok |-> TRUE,  files |-> WriteFile(files, filepath, psd)]

\* utils/apz_psd_conversion.py save_psd_file (pytoshop):
\* with open(filepath, 'wb') as f: psd.write(f), inside try/except
conversion_save_psd_file(files, psd, filepath, io) ==
    CASE io = "open_fails"  -> [ok |-> FALSE, files |-> files]
      [] io = "write_fails" -> [ok |-> FALSE, files |-> WriteFile(files, filepath, Corrupt)]
      [] OTHER              -> [ok |-> TRUE,  files |-> WriteFile(files, filepath, psd)]

unique_name(output_dir, name, counter) ==
    IF counter = 1 THEN Path(output_dir, name, "base", 0)
    ELSE Path(output_dir, name, "num", counter)

RECURSIVE unique_loop(_, _, _, _)
unique_loop(files, output_dir, name, counter) ==
    IF ~exists(files, unique_name(output_dir, name, counter))
        THEN unique_name(output_dir, name, counter)
        ELSE unique_loop(files, output_dir, name, counter + 1)

\* generate_unique_filename that tries one numbered name and does not test it
generate_unique_filename_once(files, name, output_dir) ==
    IF ~exists(files, unique_name(output_dir, name, 1))
        THEN unique_name(output_dir, name, 1)
        ELSE unique_name(output_dir, name, 2)

generate_unique_filename_base(files, name, output_dir) ==
    unique_name(output_dir, name, 1)

\* base_path is "{name}.psd"
generate_unique_filename(files, name, output_dir) ==
    unique_loop(files, output_dir, name, 1)

\* os.makedirs(output_dir, exist_ok=True) fails only when it has to create the
\* directory and the file system refuses
makedirs_fails(directories, output_dir, io) ==
    io = "mkdir_fails" /\ output_dir \notin directories

Tuple2(path, success) == [kind |-> "tuple", path |-> path, success |-> success]

\* The result of a save: the file system after it, the returned tuple, the
\* exception caught (NoneV when none), the path written and the document built.
SaveResult(files, directories, ret, exc, wrote, psd) ==
    [files |-> files, dirs |-> directories, ret |-> ret, exc |-> exc,
     wrote |-> wrote, psd |-> psd]

process_layers_to_psd(files, directories, image_tensors, layer_names, mask_tensors, output_dir, filename_prefix, io) ==
    LET failed(e) == SaveResult(files, directories, Tuple2(EmptyPath, FALSE), e,
                                NoneV, NoneV)
        n == Len(image_tensors)
        pil_images == [i \in 1 .. n |-> tensor_to_pil_image(image_tensors[i])]
        canvas == calculate_canvas_size(pil_images)
        canvas_width == canvas[1]
        canvas_height == canvas[2]
        \* "if mask_tensors:" a non-empty list; a mask that fails to convert counts as None
        pil_masks ==
            IF ~IsNone(mask_tensors) /\ Len(mask_tensors.items) > 0
                THEN [i \in 1 .. Len(mask_tensors.items) |->
                        IF IsNone(mask_tensors.items[i]) THEN NoneV
                        ELSE IF IsRaise(tensor_to_pil_mask(mask_tensors.items[i])) THEN NoneV
                        ELSE tensor_to_pil_mask(mask_tensors.items[i])]
                ELSE [i \in 1 .. n |-> NoneV]
        \* zip(pil_images, layer_names)
        k == Min(n, Len(layer_names))
        layers == [i \in 1 .. k |->
                      create_simple_psd_layer(
                          resize_image_to_canvas(pil_images[i], canvas_width, canvas_height),
                          layer_names[i],
                          IF i <= Len(pil_masks) THEN pil_masks[i] ELSE NoneV)]
        psd == create_psd_from_layers(layers, canvas_width, canvas_height)
        output_path == generate_unique_filename(files, filename_prefix, output_dir)
        saved == save_psd_file(files, psd, output_path, io)
    IN  IF IsRaise(check_psd_tools_available) THEN failed(check_psd_tools_available)
        ELSE IF \E i \in 1 .. n : IsRaise(pil_images[i])
            THEN failed(pil_images[CHOOSE i \in 1 .. n :
                            /\ IsRaise(pil_images[i])
                            /\ \A j \in 1 .. (i - 1) : ~IsRaise(pil_images[j])])
        ELSE IF makedirs_fails(directories, output_dir, io) THEN failed(Raise("OSError"))
        ELSE SaveResult(saved.files, directories \cup {output_dir},
                        Tuple2(output_path, saved.ok), NoneV,
                        output_path, psd)

\* ---------------------------------------------------------------- Multilayer saver node

DefaultLayerNames ==
    <<"Layer 1", "Layer 2", "Layer 3", "Layer 4", "Layer 5",
      "Layer 6", "Layer 7", "Layer 8", "Layer 9", "Layer 10">>

\* The loop over counter, counter + 1, ... of _handle_overwrite_mode: the first
\* numbered name that is not taken, or the base path when the numbers up to
\* the safety limit are all taken
numbered_loop(files, output_dir, filename_prefix, counter) ==
    LET taken(c) == exists(files, Path(output_dir, filename_prefix, "num", c))
    IN  IF \A c \in counter .. SafetyLimit : taken(c)
            THEN Path(output_dir, filename_prefix, "base", 0)
        ELSE Path(output_dir, filename_prefix, "num",
                  CHOOSE c \in counter .. SafetyLimit :
                      ~taken(c) /\ \A d \in counter .. (c - 1) : taken(d))

\* The number of numbered names that loop tries before it returns
numbered_attempts(files, output_dir, filename_prefix, counter) ==
    LET taken(c) == exists(files, Path(output_dir, filename_prefix, "num", c))
    IN  IF \A c \in counter .. SafetyLimit : taken(c) THEN SafetyLimit - counter + 1
        ELSE (CHOOSE c \in counter .. SafetyLimit :
                  ~taken(c) /\ \A d \in counter .. (c - 1) : taken(d)) - counter + 1

\* _handle_overwrite_mode after its os.makedirs; `now` is datetime.now()
handle_overwrite_mode(files, output_dir, filename_prefix, overwrite_mode, now) ==
    LET base_path == Path(output_dir, filename_prefix, "base", 0)
        timestamped_path == Path(output_dir, filename_prefix, "time", now)
    IN  IF overwrite_mode = "true" THEN base_path
        ELSE IF ~exists(files, base_path) THEN base_path
        ELSE IF ~exists(files, timestamped_path) THEN timestamped_path
        ELSE numbered_loop(files, output_dir, filename_prefix, 1)

\* The indices of the slots that hold a layer, in slot order
RECURSIVE valid_slots(_, _)
valid_slots(layers, i) ==
    IF i > Len(layers) THEN <<>>
    ELSE IF ~IsNone(layers[i]) THEN <<i>> \o valid_slots(layers, i + 1)
    ELSE valid_slots(layers, i + 1)

\* The result of a node call: a SaveResult plus the path _handle_overwrite_mode
\* chose and the tuple process_layers_to_psd returned to the node.
NodeResult(r, final_output_path, inner) ==
    [files |-> r.files, dirs |-> r.dirs, ret |-> NoneV, exc |-> r.exc,
     wrote |-> r.wrote, psd |-> r.psd,
     final_output_path |-> final_output_path, inner |-> inner]

\* save_psd_layers that runs _handle_overwrite_mode, which creates the output
\* directory, before it looks for layers
save_psd_layers_makedirs_first(files, directories, output_dir, filename_prefix, overwrite_mode, layers, masks, layer_names, io, now) ==
    LET unchanged(e) == NodeResult(SaveResult(files, directories, NoneV, e, NoneV, NoneV),
                                   NoneV, NoneV)
        dir == IF IsNone(output_dir) THEN "./output" ELSE output_dir.s
        prefix == IF IsNone(filename_prefix) THEN "output" ELSE filename_prefix.s
        names == [i \in 1 .. Len(layer_names) |->
                    IF IsNone(layer_names[i]) THEN DefaultLayerNames[i]
                    ELSE layer_names[i].s]
        valid == valid_slots(layers, 1)
        valid_layers == [j \in 1 .. Len(valid) |-> layers[valid[j]]]
        valid_masks == [j \in 1 .. Len(valid) |-> masks[valid[j]]]
        valid_names == [j \in 1 .. Len(valid) |-> names[valid[j]]]
        made == directories \cup {dir}
        final_output_path == handle_overwrite_mode(files, dir, prefix, overwrite_mode, now)
        r == process_layers_to_psd(files, made, valid_layers, valid_names,
                                   List(valid_masks), dir, prefix, io)
    IN  IF IsRaise(check_psd_tools_available) THEN unchanged(check_psd_tools_available)
        ELSE IF makedirs_fails(directories, dir, io) THEN unchanged(Raise("OSError"))
        ELSE IF valid = <<>>
            THEN NodeResult(SaveResult(files, made, NoneV, NoneV, NoneV, NoneV), NoneV, NoneV)
        ELSE NodeResult(r, final_output_path, r.ret)

save_psd_layers(files, directories, output_dir, filename_prefix, overwrite_mode, layers, masks, layer_names, io, now) ==
    LET unchanged(e) == NodeResult(SaveResult(files, directories, NoneV, e, NoneV, NoneV),
                                   NoneV, NoneV)
        dir == IF IsNone(output_dir) THEN "./output" ELSE output_dir.s
        prefix == IF IsNone(filename_prefix) THEN "output" ELSE filename_prefix.s
        names == [i \in 1 .. Len(layer_names) |->
                    IF IsNone(layer_names[i]) THEN DefaultLayerNames[i]
                    ELSE layer_names[i].s]
        valid == valid_slots(layers, 1)
        valid_layers == [j \in 1 .. Len(valid) |-> layers[valid[j]]]
        valid_masks == [j \in 1 .. Len(valid) |-> masks[valid[j]]]
        valid_names == [j \in 1 .. Len(valid) |-> names[valid[j]]]
        made == directories \cup {dir}
        final_output_path == handle_overwrite_mode(files, dir, prefix, overwrite_mode, now)
        r == process_layers_to_psd(files, made, valid_layers, valid_names,
                                   List(valid_masks), dir, prefix, io)
    IN  IF IsRaise(check_psd_tools_available) THEN unchanged(check_psd_tools_available)
        ELSE IF valid = <<>> THEN unchanged(NoneV)          \* "No layers provided for saving"
        ELSE IF makedirs_fails(directories, dir, io) THEN unchanged(Raise("OSError"))
        ELSE NodeResult(r, final_output_path, r.ret)

\* ---------------------------------------------------------------- pytoshop conversion

check_pytoshop_available ==
    IF ~PYTOSHOP_AVAILABLE THEN Raise("ImportError") ELSE NoneV

\* A numpy array [H, W, C] whose pixels all equal `pixel` (one sample per
\* channel), or [H, W] with the samples px[<<x, y>>]
ndarray(shape, pixel) == [kind |-> "ndarray", shape |-> shape, pixel |-> pixel]
ndarray2(shape, px) == [kind |-> "ndarray", shape |-> shape, px |-> px]

\* (x * 255).type(torch.uint8) with no clamp   /   astype(np.uint8)
wrap_uint8(floating, v) ==
    IF floating THEN ((v * 255) \div 1000) % 256 ELSE v % 256

tensor_to_numpy_array(image_tensor) ==
    IF image_tensor.kind # "tensor" THEN Raise("AttributeError")
    ELSE
    LET s0 == image_tensor.shape
        u == wrap_uint8(image_tensor.floating, image_tensor.v)
    IN  IF Len(s0) < 2 THEN Raise("IndexError")
        \* len(shape) == 4 and shape[1] == 3 or shape[1] == 4
        ELSE IF (Len(s0) = 4 /\ s0[2] = 3) \/ s0[2] = 4
            THEN IF Len(s0) # 4 THEN Raise("RuntimeError")    \* permute of a non 4-D tensor
                 ELSE ndarray(<<s0[3], s0[4], s0[2]>>, [c \in 1 .. s0[2] |-> u])
        ELSE IF Len(s0) = 4 THEN ndarray(<<s0[2], s0[3], s0[4]>>, [c \in 1 .. s0[4] |-> u])
        ELSE Raise("ValueError")                              \* not a batch of images

mask_tensor_to_numpy_array(mask_tensor) ==
    IF mask_tensor.kind # "tensor" THEN Raise("AttributeError")    \* no .cpu()
    ELSE
    LET s0 == mask_tensor.shape
        s == IF Len(s0) = 4 /\ s0[2] \in {1, 3}
                 THEN <<s0[1], s0[3], s0[4]>>
                 ELSE s0
    IN  ndarray2(<<s[2], s[3]>>,
                 [p \in Coords(s[3], s[2]) |->
                     wrap_uint8(mask_tensor.floating, mask_tensor.px[p])])

\* nested_layers.Layer(name=, image_data=, opacity=, blend_mode=); layer.mask_data
create_psd_layer(image_data, layer_name, mask_data, opacity, blend_mode) ==
    IF IsRaise(check_pytoshop_available) THEN check_pytoshop_available
    ELSE [kind |-> "Layer", name |-> layer_name, image_data |-> image_data,
          mask_data |-> mask_data, opacity |-> opacity, blend_mode |-> blend_mode]

\* The first exception raised while the items of a list were computed in order
FirstRaise(items) ==
    IF \E i \in 1 .. Len(items) : IsRaise(items[i])
        THEN items[CHOOSE i \in 1 .. Len(items) :
                      /\ IsRaise(items[i])
                      /\ \A j \in 1 .. (i - 1) : ~IsRaise(items[j])]
        ELSE NoneV

\* mask_tensors is None or a Python list; each layer is converted in turn
batch_tensors_to_psd_layers(image_tensors, layer_names, mask_tensors, opacities, blend_modes) ==
    LET k == Min(Len(image_tensors), Len(layer_names))          \* zip
        one(i) ==
            LET image_data == tensor_to_numpy_array(image_tensors[i])
                mask_data == IF ~IsNone(mask_tensors) /\ Len(mask_tensors.items) > 0
                                    /\ i <= Len(mask_tensors.items)
                                 THEN mask_tensor_to_numpy_array(mask_tensors.items[i])
                                 ELSE NoneV
            IN  IF IsRaise(image_data) THEN image_data
                ELSE IF IsRaise(mask_data) THEN mask_data
                ELSE create_psd_layer(image_data, layer_names[i], mask_data,
                                      IF i <= Len(opacities) THEN opacities[i] ELSE 255,
                                      IF i <= Len(blend_modes) THEN blend_modes[i]
                                      ELSE "normal")
        layers == [i \in 1 .. k |-> one(i)]
    IN  IF IsRaise(FirstRaise(layers)) THEN FirstRaise(layers) ELSE List(layers)

\* validate_layer_dimensions that compares the heights only
validate_layer_dimensions_heights(layers) ==
    /\ Len(layers) > 0
    /\ \A i \in 2 .. Len(layers) :
        layers[i].image_data.shape[1] = layers[1].image_data.shape[1]

\* it only reports; an empty list is invalid
validate_layer_dimensions(layers) ==
    /\ Len(layers) > 0
    /\ \A i \in 2 .. Len(layers) :
        /\ layers[i].image_data.shape[1] = layers[1].image_data.shape[1]
        /\ layers[i].image_data.shape[2] = layers[1].image_data.shape[2]

\* nested_layers.nested_layers_to_psd(layers, color_mode=...): the layers in
\* the order of the list; enums is None when pytoshop is missing
conversion_create_psd_from_layers(layers, color_mode) ==
    IF ~PYTOSHOP_AVAILABLE THEN Raise("AttributeError")
    ELSE [kind |-> "Psd", layers |-> layers, color_mode |-> color_mode]

\* ---------------------------------------------------------------- mask utility

\* mask.max(), mask.min() of a 2-D array
array_max(px) == CHOOSE m \in { px[p] : p \in DOMAIN px } : \A q \in DOMAIN px : px[q] <= m
array_min(px) == CHOOSE m \in { px[p] : p \in DOMAIN px } : \A q \in DOMAIN px : px[q] >= m

\* PSDMaskUtility.normalize_mask(mask) with target_range (0, 255), followed by
\* astype(np.uint8); floating samples are in thousandths
normalize_mask(floating, px) ==
    LET one == IF floating THEN 1000 ELSE 1
        hi == array_max(px)
        lo == array_min(px)
    IN  IF hi <= one /\ lo >= 0
            THEN [p \in DOMAIN px |-> (px[p] * 255) \div one]           \* mask * 255
        ELSE IF hi <= 255 * one /\ lo >= 0
            THEN [p \in DOMAIN px |-> px[p] \div one]                   \* kept, truncated
        ELSE IF hi > lo
            THEN [p \in DOMAIN px |-> ((px[p] - lo) * 255) \div (hi - lo)]
        ELSE [p \in DOMAIN px |-> 0]

\* PSDMaskUtility.combine_masks on uint8 arrays of one shape: the arithmetic
\* of uint8 arrays is modulo 256
RECURSIVE combine_loop(_, _, _)
combine_loop(result, rest, operation) ==
    IF rest = <<>> THEN ndarray2(result.shape, result.px)
    ELSE
    LET mask == Head(rest)
    IN  IF operation = "union"
            THEN combine_loop([result EXCEPT !.px = [p \in DOMAIN result.px |->
                                   Max(result.px[p], mask.px[p])]],
                              Tail(rest), operation)
        ELSE IF operation = "intersection"
            THEN combine_loop([result EXCEPT !.px = [p \in DOMAIN result.px |->
                                   Min(result.px[p], mask.px[p])]],
                              Tail(rest), operation)
        ELSE IF operation = "difference"
            \* np.maximum(result - mask, 0)
            THEN combine_loop([result EXCEPT !.px = [p \in DOMAIN result.px |->
                                   Max((result.px[p] - mask.px[p]) % 256, 0)]],
                              Tail(rest), operation)
        ELSE Raise("ValueError")

combine_masks(masks, operation) ==
    IF masks = <<>> THEN Raise("ValueError")
    ELSE IF Len(masks) = 1 THEN masks[1]
    ELSE combine_loop(masks[1], Tail(masks), operation)

\* PSDMaskUtility.process_mask_for_psd(mask) without target_shape
process_mask_for_psd(mask) ==
    IF mask.kind # "tensor" THEN Raise("AttributeError")
    ELSE
    LET s0 == mask.shape
        s1 == IF Len(s0) = 4 THEN Tail(s0) ELSE s0       \* first of the batch
        s2 == IF Len(s1) = 3 THEN Tail(s1) ELSE s1       \* first channel
    IN  IF Len(s2) # 2 THEN Raise("ValueError")
        ELSE ndarray2(s2, normalize_mask(mask.floating, mask.px))

\* ---------------------------------------------------------------- PSD Disassembler

\* load_psd_file that parses without testing that the file is there
load_psd_file_unchecked(files, filepath) ==
    IF IsRaise(check_psd_tools_available) THEN check_psd_tools_available
    ELSE IF ~exists(files, filepath) THEN Raise("LoadError")
    ELSE IF files[filepath].kind # "psd" THEN Raise("LoadError")
    ELSE files[filepath]

\* The calls load_psd_file makes, in order
load_psd_file_calls(files, filepath) ==
    IF IsRaise(check_psd_tools_available) THEN <<"check_psd_tools_available">>
    ELSE IF ~exists(files, filepath) THEN <<"check_psd_tools_available", "os.path.exists">>
    ELSE <<"check_psd_tools_available", "os.path.exists", "PSDImage.open">>

\* raise Exception(f"Error loading PSD file {filepath}: {e}") is Raise("LoadError")
load_psd_file(files, filepath) ==
    IF IsRaise(check_psd_tools_available) THEN check_psd_tools_available
    ELSE IF ~exists(files, filepath) THEN Raise("FileNotFoundError")
    ELSE IF files[filepath].kind # "psd" THEN Raise("LoadError")     \* PSDImage.open failed
    ELSE files[filepath]

get_psd_info(psd) ==
    [width |-> psd.width, height |-> psd.height,
     layer_count |-> Len(psd.layers),
     layer_names |-> [i \in 1 .. Len(psd.layers) |-> psd.layers[i].name]]

\* A tensor the loader returns: samples in 255ths (255 is 1.0), either one
\* constant (torch.zeros / torch.ones) or a raster.
ConstTensor(shape, v) ==
    [kind |-> "tensor", shape |-> shape, floating |-> TRUE, const |-> TRUE,
     v |-> v, px |-> <<>>]
RasterTensor(shape, px) ==
    [kind |-> "tensor", shape |-> shape, floating |-> TRUE, const |-> FALSE,
     v |-> 0, px |-> px]

\* np.array(pil_image.convert('RGB')) / 255.0, unsqueeze(0)
pil_to_tensor(pil_image) ==
    RasterTensor(<<1, pil_image.height, pil_image.width, 3>>,
                 [p \in DOMAIN pil_image.px |-> pil_image.px[p]])

pil_mask_to_tensor(pil_mask) ==
    RasterTensor(<<1, pil_mask.height, pil_mask.width>>,
                 [p \in DOMAIN pil_mask.px |-> pil_mask.px[p]])

\* extract_layer_image without its range check: an index past the end reads the
\* last layer
extract_layer_image_last(psd, layer_index) ==
    LET layer == psd.layers[Min(layer_index + 1, Len(psd.layers))]
    IN  IF layer.kind # "PixelLayer" THEN NoneV
        ELSE [kind |-> "image", mode |-> "RGB",
              width |-> layer.image.width, height |-> layer.image.height,
              px |-> [p \in DOMAIN layer.image.px |-> layer.image.px[p].rgb]]

\* layer_index is 0-based; layers[layer_index + 1] is psd[layer_index]
extract_layer_image(psd, layer_index) ==
    IF layer_index < 0 \/ layer_index >= Len(psd.layers) THEN NoneV
    ELSE
    LET layer == psd.layers[layer_index + 1]
    IN  IF layer.kind # "PixelLayer" THEN NoneV
        ELSE \* layer.topil().convert('RGB')
             [kind |-> "image", mode |-> "RGB",
              width |-> layer.image.width, height |-> layer.image.height,
              px |-> [p \in DOMAIN layer.image.px |-> layer.image.px[p].rgb]]

\* extract_layer_mask that takes the mask to be as large as the layer
extract_layer_mask_layer_size(psd, layer_index) ==
    IF layer_index < 0 \/ layer_index >= Len(psd.layers) THEN NoneV
    ELSE
    LET layer == psd.layers[layer_index + 1]
    IN  IF layer.kind # "PixelLayer" THEN NoneV
        ELSE IF IsNone(layer.mask_data) THEN NoneV
        ELSE IF "USER_LAYER_MASK" \notin layer.channels THEN NoneV
        ELSE
        LET mask_width == layer.image.width
            mask_height == layer.image.height
            mask_array == layer.mask_channel
        IN  IF Len(mask_array) = mask_width * mask_height
                THEN [kind |-> "image", mode |-> "L",
                      width |-> mask_width, height |-> mask_height,
                      px |-> [p \in Coords(mask_width, mask_height) |->
                                 mask_array[p[2] * mask_width + p[1] + 1]]]
                ELSE NoneV

extract_layer_mask(psd, layer_index) ==
    IF layer_index < 0 \/ layer_index >= Len(psd.layers) THEN NoneV
    ELSE
    LET layer == psd.layers[layer_index + 1]
    IN  IF layer.kind # "PixelLayer" THEN NoneV
        ELSE IF IsNone(layer.mask_data) THEN NoneV
        ELSE IF "USER_LAYER_MASK" \notin layer.channels THEN NoneV
        ELSE
        LET mask_info == layer.mask_data
            mask_width == mask_info.right - mask_info.left
            mask_height == mask_info.bottom - mask_info.top
            mask_array == layer.mask_channel
        IN  IF Len(mask_array) = mask_width * mask_height
                THEN \* reshape((mask_height, mask_width)), row-major
                     [kind |-> "image", mode |-> "L",
                      width |-> mask_width, height |-> mask_height,
                      px |-> [p \in Coords(mask_width, mask_height) |->
                                 mask_array[p[2] * mask_width + p[1] + 1]]]
                ELSE NoneV

\* extract_layer_and_mask that renders a layer of any kind: a group comes back
\* as a raster of the document's size
extract_layer_and_mask_any_kind(psd, layer_index) ==
    IF layer_index >= 0 /\ layer_index < Len(psd.layers)
          /\ psd.layers[layer_index + 1].kind # "PixelLayer"
        THEN [image |-> [kind |-> "image", mode |-> "RGB",
                         width |-> psd.width, height |-> psd.height,
                         px |-> [p \in Coords(psd.width, psd.height) |-> <<0, 0, 0>>]],
              mask |-> NoneV]
        ELSE [image |-> extract_layer_image(psd, layer_index),
              mask |-> extract_layer_mask(psd, layer_index)]

extract_layer_and_mask(psd, layer_index) ==
    [image |-> extract_layer_image(psd, layer_index),
     mask |-> extract_layer_mask(psd, layer_index)]

LoadTuple(image, mask, layer_name, layer_count) ==
    [kind |-> "tuple", image |-> image, mask |-> mask,
     layer_name |-> layer_name, layer_count |-> layer_count]

\* zero-size defaults instead of 512 x 512 ones
LoadDefault_zero_size ==
    LoadTuple(ConstTensor(<<1, 0, 0, 3>>, 0), ConstTensor(<<1, 0, 0>>, 255), "Error", 0)

\* "Return default values on error"
LoadDefault ==
    LoadTuple(ConstTensor(<<1, PlaceholderSize, PlaceholderSize, 3>>, 0),
              ConstTensor(<<1, PlaceholderSize, PlaceholderSize>>, 255),
              "Error", 0)

\* The result of a load: the returned tuple and the exception caught and printed
\* (NoneV when none).
load_psd_layer(files, psd_file, layer_index, load_mask) ==
    LET failed(e) == [ret |-> LoadDefault, exc |-> e]
        psd == load_psd_file(files, psd_file)
        total_layers == get_psd_info(psd).layer_count
        pair == extract_layer_and_mask(psd, layer_index)
        pil_image == pair.image
        pil_mask == pair.mask
        image_tensor == pil_to_tensor(pil_image)
        mask_tensor == IF load_mask = "true" /\ ~IsNone(pil_mask)
                           THEN pil_mask_to_tensor(pil_mask)
                           ELSE ConstTensor(<<1, pil_image.height, pil_image.width>>, 255)
        layer_name == psd.layers[layer_index + 1].name
    IN  IF IsRaise(check_psd_tools_available) THEN failed(check_psd_tools_available)
        ELSE IF IsRaise(psd) THEN failed(psd)
        ELSE IF layer_index >= total_layers THEN failed(Raise("ValueError: out of range"))
        ELSE IF IsNone(pil_image) THEN failed(Raise("ValueError: could not extract"))
        ELSE [ret |-> LoadTuple(image_tensor, mask_tensor, layer_name, total_layers),
              exc |-> NoneV]

\* ---------------------------------------------------------------- inputs

LayerNames ==
    <<"Red", "Green", "Blue", "Cyan", "Magenta", "Yellow", "Black", "White", "Grey", "Pink">>

\* The image offered to slot i: 2 x 2, three channels, channel-last, float
SlotLayer(i) == ImageTensor(<<1, 2, 2, 3>>, TRUE, 1000 - 100 * (i - 1))

\* A 2 x 2 disk: white at <<0, 0>>, black elsewhere
DiskMask == MaskTensor(<<1, 2, 2>>, TRUE,
                       [p \in Coords(2, 2) |-> IF p = <<0, 0>> THEN 1000 ELSE 0])

\* The sets of filled slots the node is run with: none, the first k, and the
\* first and last of MaxSlots with the slots between them empty.
SlotSets == { 1 .. k : k \in 0 .. MaxSlots } \cup { {1, MaxSlots} }

\* The node's arguments for the set S of filled slots: slot 1 ("Red") carries the
\* disk mask, even slots leave their name to the default, and with `bad` the
\* last filled slot holds something that is not a tensor.
NodeLayers(S, bad) ==
    [i \in 1 .. NumSlots |->
        IF i \notin S THEN NoneV
        ELSE IF bad /\ (\A j \in S : j <= i) THEN NotATensor
        ELSE SlotLayer(i)]
NodeMasks(S) ==
    [i \in 1 .. NumSlots |-> IF i \in S /\ i = 1 THEN DiskMask ELSE NoneV]
NodeNames(S) ==
    [i \in 1 .. NumSlots |-> IF i % 2 = 0 THEN NoneV ELSE Str(LayerNames[i])]

Prefixes == {"output", "alt"}
OutputDir == "./output"
IOs == {"ok", "mkdir_fails", "write_fails"}

\* A document made by another program, already in ./input: a pixel layer with a
\* user layer mask (2 x 1, white then black) below a group.
ExternalPsd ==
    [kind |-> "psd", width |-> 2, height |-> 1,
     layers |-> <<
        [kind |-> "PixelLayer", name |-> "Base",
         image |-> [kind |-> "image", mode |-> "RGBA", width |-> 2, height |-> 1,
                    px |-> [p \in Coords(2, 1) |-> [rgb |-> <<9, 9, 9>>, a |-> 255]]],
         mask_data |-> [kind |-> "MaskData", left |-> 0, top |-> 0, right |-> 2, bottom |-> 1],
         channels |-> {"RED", "GREEN", "BLUE", "TRANSPARENCY_MASK", "USER_LAYER_MASK"},
         mask_channel |-> <<255, 0>>],
        [kind |-> "Group", name |-> "Group"] >>]

ExternalPath == Path("./input", "input", "base", 0)
MissingPath == Path("./input", "missing", "base", 0)

\* ---------------------------------------------------------------- state machine

\* The record of a call: what was called with which arguments on which file
\* system (before), what it returned (ret), the exception it caught (exc), the
\* path it wrote (wrote) and the document it built (psd); for the node, also
\* the path _handle_overwrite_mode chose and the tuple process_layers_to_psd
\* returned to it (inner); io is what the file system did to the call.
Call(op, args, io, before, r) ==
    [op |-> op, args |-> args, io |-> io, before |-> before, ret |-> r.ret, exc |-> r.exc,
     wrote |-> r.wrote, psd |-> r.psd,
     final_output_path |-> r.final_output_path, inner |-> r.inner]

NoCall ==
    Call("none", NoneV, "ok", <<>>,
         [ret |-> NoneV, exc |-> NoneV, wrote |-> NoneV, psd |-> NoneV,
          final_output_path |-> NoneV, inner |-> NoneV])

Init ==
    /\ fs = [q \in {ExternalPath} |-> ExternalPsd]
    /\ dirs = {"./input"}
    /\ PSD_TOOLS_AVAILABLE \in BOOLEAN
    /\ PYTOSHOP_AVAILABLE \in BOOLEAN
    /\ last = NoCall
    /\ prev = NoCall
    /\ ncalls = 0
    /\ inflight = <<>>

\* The host runs the multilayer saver node
SavePsdLayers ==
    /\ ncalls < MaxCalls
    /\ \E S \in SlotSets, bad \in BOOLEAN, prefix \in Prefixes,
          overwrite_mode \in {"false", "true"}, io \in IOs :
        LET args == [output_dir |-> Str(OutputDir), filename_prefix |-> Str(prefix),
                     overwrite_mode |-> overwrite_mode,
                     layers |-> NodeLayers(S, bad), masks |-> NodeMasks(S),
                     layer_names |-> NodeNames(S)]
        IN  \E r \in { save_psd_layers(fs, dirs, args.output_dir, args.filename_prefix,
                                       args.overwrite_mode, args.layers, args.masks,
                                       args.layer_names, io, ncalls) } :
                /\ fs' = r.files
                /\ dirs' = r.dirs
                /\ last' = Call("save_psd_layers", args, io, fs, r)
    /\ prev' = last
    /\ ncalls' = ncalls + 1
    /\ UNCHANGED <<PSD_TOOLS_AVAILABLE, PYTOSHOP_AVAILABLE, inflight>>

\* A caller (the test scripts) runs process_layers_to_psd directly
ProcessLayersToPsd ==
    /\ ncalls < MaxCalls
    /\ \E n \in 0 .. MaxSlots, with_masks \in BOOLEAN, io \in IOs :
        LET args == [image_tensors |-> [i \in 1 .. n |-> SlotLayer(i)],
                     layer_names |-> [i \in 1 .. n |-> LayerNames[i]],
                     mask_tensors |-> IF with_masks
                                          THEN List([i \in 1 .. n |-> NodeMasks(1 .. n)[i]])
                                          ELSE NoneV,
                     output_dir |-> OutputDir, filename_prefix |-> "output"]
        IN  \E r \in { process_layers_to_psd(fs, dirs, args.image_tensors,
                                             args.layer_names, args.mask_tensors,
                                             args.output_dir, args.filename_prefix, io) } :
                /\ fs' = r.files
                /\ dirs' = r.dirs
                /\ last' = Call("process_layers_to_psd", args, io, fs,
                                [ret |-> r.ret, exc |-> r.exc, wrote |-> r.wrote,
                                 psd |-> r.psd, final_output_path |-> NoneV,
                                 inner |-> NoneV])
    /\ prev' = last
    /\ ncalls' = ncalls + 1
    /\ UNCHANGED <<PSD_TOOLS_AVAILABLE, PYTOSHOP_AVAILABLE, inflight>>

\* The host runs the layer loader node
LoadPsdLayer ==
    /\ ncalls < MaxCalls
    /\ \E psd_file \in (DOMAIN fs) \cup {MissingPath}, layer_index \in 0 .. MaxIndex,
          load_mask \in {"true", "false"} :
        LET args == [psd_file |-> psd_file, layer_index |-> layer_index,
                     load_mask |-> load_mask]
        IN  \E r \in { load_psd_layer(fs, psd_file, layer_index, load_mask) } :
                last' = Call("load_psd_layer", args, "ok", fs,
                             [ret |-> r.ret, exc |-> r.exc, wrote |-> NoneV,
                              psd |-> NoneV, final_output_path |-> NoneV,
                              inner |-> NoneV])
    /\ prev' = last
    /\ ncalls' = ncalls + 1
    /\ UNCHANGED <<fs, dirs, PSD_TOOLS_AVAILABLE, PYTOSHOP_AVAILABLE, inflight>>

\* A caller (the test scripts) opens a document and extracts one layer from it
ExtractLayerAndMask ==
    /\ ncalls < MaxCalls
    /\ PSD_TOOLS_AVAILABLE
    /\ \E psd_file \in DOMAIN fs, layer_index \in 0 .. MaxIndex :
        /\ ~IsRaise(load_psd_file(fs, psd_file))
        /\ LET args == [psd_file |-> psd_file, layer_index |-> layer_index]
           IN  \E r \in { extract_layer_and_mask(load_psd_file(fs, psd_file), layer_index) } :
                   last' = Call("extract_layer_and_mask", args, "ok", fs,
                                [ret |-> r, exc |-> NoneV, wrote |-> NoneV,
                                 psd |-> NoneV, final_output_path |-> NoneV,
                                 inner |-> NoneV])
    /\ prev' = last
    /\ ncalls' = ncalls + 1
    /\ UNCHANGED <<fs, dirs, PSD_TOOLS_AVAILABLE, PYTOSHOP_AVAILABLE, inflight>>

Next ==
    \/ SavePsdLayers
    \/ ProcessLayersToPsd
    \/ LoadPsdLayer
    \/ ExtractLayerAndMask

Spec == Init /\ [][Next]_vars

\* ---------------------------------------------------------------- compositing

\* The batches of image sizes <<w, h>> that are composited
Sizes == (1 .. MaxW) \X (1 .. MaxH)
Batches == UNION { [1 .. n -> Sizes] : n \in 0 .. MaxLayers }

\* The i-th image of a batch: channel-first [1, 3, h, w], float, one colour per i
CanvasImage(i, size) == ImageTensor(<<1, 3, size[2], size[1]>>, TRUE, 1000 - 100 * (i - 1))

\* The mask given with an image: none, or a raster of the image's own size that
\* is white everywhere or black everywhere
MaskKinds == {"none", "white", "black"}
CanvasMask(kind, size) ==
    IF kind = "none" THEN NoneV
    ELSE MaskTensor(<<1, size[2], size[1]>>, TRUE,
                    [p \in Coords(size[1], size[2]) |-> IF kind = "white" THEN 1000 ELSE 0])

\* A caller applies calculate_canvas_size to a list of images
CalculateCanvasSize ==
    /\ ncalls < MaxCanvasCalls
    /\ \E batch \in Batches :
        LET args == [images |-> [i \in 1 .. Len(batch) |->
                                    tensor_to_pil_image(CanvasImage(i, batch[i]))]]
        IN  \E r \in { calculate_canvas_size(args.images) } :
                last' = Call("calculate_canvas_size", args, "ok", fs,
                             [ret |-> r, exc |-> NoneV, wrote |-> NoneV, psd |-> NoneV,
                              final_output_path |-> NoneV, inner |-> NoneV])
    /\ prev' = last
    /\ ncalls' = ncalls + 1
    /\ UNCHANGED <<fs, dirs, PSD_TOOLS_AVAILABLE, PYTOSHOP_AVAILABLE, inflight>>

\* A caller saves a batch of mixed-size images, all with the same kind of mask
CompositeLayers ==
    /\ ncalls < MaxCanvasCalls
    /\ \E batch \in Batches, kind \in MaskKinds :
        LET n == Len(batch)
            args == [image_tensors |-> [i \in 1 .. n |-> CanvasImage(i, batch[i])],
                     layer_names |-> [i \in 1 .. n |-> LayerNames[i]],
                     mask_tensors |-> List([i \in 1 .. n |-> CanvasMask(kind, batch[i])]),
                     output_dir |-> OutputDir, filename_prefix |-> "output"]
        IN  \E r \in { process_layers_to_psd(fs, dirs, args.image_tensors,
                                             args.layer_names, args.mask_tensors,
                                             args.output_dir, args.filename_prefix, "ok") } :
                /\ fs' = r.files
                /\ dirs' = r.dirs
                /\ last' = Call("process_layers_to_psd", args, "ok", fs,
                                [ret |-> r.ret, exc |-> r.exc, wrote |-> r.wrote,
                                 psd |-> r.psd, final_output_path |-> NoneV,
                                 inner |-> NoneV])
    /\ prev' = last
    /\ ncalls' = ncalls + 1
    /\ UNCHANGED <<PSD_TOOLS_AVAILABLE, PYTOSHOP_AVAILABLE, inflight>>

NextCanvas ==
    \/ CalculateCanvasSize
    \/ CompositeLayers

SpecCanvas == Init /\ [][NextCanvas]_vars

\* ---------------------------------------------------------------- properties

\* The last two calls were both runs of the multilayer saver node
TwoNodeCalls == prev.op = "save_psd_layers" /\ last.op = "save_psd_layers"

\* The node call c reached process_layers_to_psd and its save succeeded
Saved(c) == c.inner.kind = "tuple" /\ c.inner.success

\* The files of the file system that a save with this directory and prefix names
FilesFor(files, dir, prefix) ==
    { q \in DOMAIN files : q.dir = dir /\ q.prefix = prefix }

\* C1, as the specification states it: with overwrite_mode "true", two node
\* calls in a row with identical arguments that both save write one and the
\* same path, {output_dir}/{filename_prefix}.psd, and after the second call
\* exactly one file for that prefix exists.
C1_OverwriteReusesOnePath ==
    ( /\ TwoNodeCalls
      /\ prev.args = last.args
      /\ last.args.overwrite_mode = "true"
      /\ Saved(prev) /\ Saved(last)
      /\ FilesFor(prev.before, last.args.output_dir.s, last.args.filename_prefix.s) = {} )
    => /\ last.wrote = prev.wrote
       /\ last.wrote = Path(last.args.output_dir.s, last.args.filename_prefix.s, "base", 0)
       /\ Cardinality(FilesFor(fs, last.args.output_dir.s,
                               last.args.filename_prefix.s)) = 1

\* C2: with overwrite_mode "false", two node calls in a row with the same
\* output_dir and filename_prefix that both save write two distinct paths, and
\* afterwards both files exist, each holding the document its own call built.
C2_NoOverwriteDistinctPaths ==
    ( /\ TwoNodeCalls
      /\ prev.args.output_dir = last.args.output_dir
      /\ prev.args.filename_prefix = last.args.filename_prefix
      /\ prev.args.overwrite_mode = "false"
      /\ last.args.overwrite_mode = "false"
      /\ Saved(prev) /\ Saved(last) )
    => /\ last.wrote # prev.wrote
       /\ exists(fs, prev.wrote) /\ fs[prev.wrote] = prev.psd
       /\ exists(fs, last.wrote) /\ fs[last.wrote] = last.psd

\* C2 witness: two such saves have happened
C2_Witness ==
    /\ TwoNodeCalls
    /\ prev.args.output_dir = last.args.output_dir
    /\ prev.args.filename_prefix = last.args.filename_prefix
    /\ prev.args.overwrite_mode = "false"
    /\ last.args.overwrite_mode = "false"
    /\ Saved(prev) /\ Saved(last)
    /\ exists(fs, prev.wrote) /\ exists(fs, last.wrote)

\* The last call was process_layers_to_psd with as many names as images, no
\* exception was caught and the file system accepted the write
CleanProcessCall ==
    /\ last.op = "process_layers_to_psd"
    /\ Len(last.args.image_tensors) = Len(last.args.layer_names)
    /\ IsNone(last.exc)
    /\ last.io # "write_fails"

\* C3, as the specification states it: for n images with n names the saved
\* document has n layers and the layer at index i carries layer_names[i]
\* (index 0 = "Red"), and the call returns success = true.
C3_LayersInNameOrder ==
    CleanProcessCall =>
        /\ last.ret.success
        /\ exists(fs, last.ret.path)
        /\ fs[last.ret.path].kind = "psd"
        /\ Len(fs[last.ret.path].layers) = Len(last.args.layer_names)
        /\ \A i \in 1 .. Len(last.args.layer_names) :
              fs[last.ret.path].layers[i].name = last.args.layer_names[i]

\* C3, amended: for n images with n names the saved document has n layers in
\* the reverse of the input name order: the layer at index i (0-based) carries
\* layer_names[n - 1 - i], so the first name is the last (topmost) layer; and
\* the call returns success = true.
C3_LayersInReverseNameOrder ==
    CleanProcessCall =>
        /\ last.ret.success
        /\ exists(fs, last.ret.path)
        /\ fs[last.ret.path].kind = "psd"
        /\ Len(fs[last.ret.path].layers) = Len(last.args.layer_names)
        /\ \A i \in 1 .. Len(last.args.layer_names) :
              fs[last.ret.path].layers[i].name =
                  last.args.layer_names[Len(last.args.layer_names) + 1 - i]

\* C3 witness: a document of at least two layers was saved, its index 0 named
\* by the last name given
C3_Witness ==
    /\ CleanProcessCall
    /\ Len(last.args.layer_names) >= 2
    /\ last.ret.success
    /\ fs[last.ret.path].layers[1].name = last.args.layer_names[Len(last.args.layer_names)]

\* The sample at p of a tensor the loader returned, in 255ths
Sample(tensor, p) == IF tensor.const THEN tensor.v ELSE tensor.px[p]

\* C4, as the specification states it: after process_layers_to_psd saved layers
\* whose first one ("Red") has a mask, load_psd_layer of index 0 of the written
\* file with load_mask "true" returns that mask: 255 where it was white, 0
\* where it was black.
C4_MaskRoundTrip ==
    ( /\ prev.op = "process_layers_to_psd"
      /\ prev.ret.success
      /\ ~IsNone(prev.args.mask_tensors)
      /\ Len(prev.args.image_tensors) >= 1
      /\ last.op = "load_psd_layer"
      /\ last.args.psd_file = prev.ret.path
      /\ last.args.layer_index = 0
      /\ last.args.load_mask = "true" )
    => LET saved == tensor_to_pil_mask(prev.args.mask_tensors.items[1])
       IN  /\ last.ret.mask.shape = <<1, saved.height, saved.width>>
           /\ \A p \in Coords(saved.width, saved.height) :
                 Sample(last.ret.mask, p) = saved.px[p]

\* C5, as the specification states it: a save that catches an exception returns
\* the output path that was asked for (the given directory and prefix) with
\* success = false, never an empty or different path.
C5_FailureReturnsRequestedPath ==
    (last.op = "process_layers_to_psd" /\ ~IsNone(last.exc)) =>
        /\ ~last.ret.success
        /\ last.ret.path # EmptyPath
        /\ last.ret.path.dir = last.args.output_dir
        /\ last.ret.path.prefix = last.args.filename_prefix

\* The load call c was bound to fail: no library, no such file, a file that
\* does not parse, a layer_index at or past the document's layer count, or a
\* layer that is not a pixel layer
LoadMustFail(c) ==
    \/ ~PSD_TOOLS_AVAILABLE
    \/ ~exists(c.before, c.args.psd_file)
    \/ c.before[c.args.psd_file].kind # "psd"
    \/ c.args.layer_index >= Len(c.before[c.args.psd_file].layers)
    \/ c.before[c.args.psd_file].layers[c.args.layer_index + 1].kind # "PixelLayer"

\* C6: load_psd_layer always returns a tuple, and when the library is missing,
\* the file is missing or unparsable, layer_index >= the layer count
\* (layer_index = layer count included) or the layer cannot be extracted, the
\* tuple is the placeholder: an all-zero 1x512x512x3 image, an all-ones
\* 1x512x512 mask, "Error" and 0.
C6_LoadNeverRaises ==
    last.op = "load_psd_layer" =>
        /\ last.ret.kind = "tuple"
        /\ LoadMustFail(last) =>
              /\ last.ret.image.shape = <<1, 512, 512, 3>>
              /\ last.ret.image.const /\ last.ret.image.v = 0
              /\ last.ret.mask.shape = <<1, 512, 512>>
              /\ last.ret.mask.const /\ last.ret.mask.v = 255
              /\ last.ret.layer_name = "Error"
              /\ last.ret.layer_count = 0

\* C6 witness: a load with layer_index equal to the layer count of a parsable
\* document returned the placeholder
C6_Witness ==
    /\ last.op = "load_psd_layer"
    /\ PSD_TOOLS_AVAILABLE
    /\ exists(last.before, last.args.psd_file)
    /\ last.before[last.args.psd_file].kind = "psd"
    /\ last.args.layer_index = Len(last.before[last.args.psd_file].layers)
    /\ last.ret.layer_name = "Error"
    /\ last.ret.layer_count = 0

\* The call c asked for a layer of an opened document at an index at or past
\* the document's layer count
OutOfRange(c) ==
    /\ exists(c.before, c.args.psd_file)
    /\ c.before[c.args.psd_file].kind = "psd"
    /\ c.args.layer_index >= Len(c.before[c.args.psd_file].layers)

C8_CanvasIsPerAxisMaximum ==
    last.op = "calculate_canvas_size" =>
        LET images == last.args.images
        IN  IF images = <<>> THEN last.ret = <<512, 512>>
            ELSE /\ \A i \in 1 .. Len(images) : images[i].width <= last.ret[1]
                 /\ \E i \in 1 .. Len(images) : images[i].width = last.ret[1]
                 /\ \A i \in 1 .. Len(images) : images[i].height <= last.ret[2]
                 /\ \E i \in 1 .. Len(images) : images[i].height = last.ret[2]

\* C8 witness: the canvas of two images took its width from the second and its
\* height from the first
C8_Witness ==
    /\ last.op = "calculate_canvas_size"
    /\ Len(last.args.images) = 2
    /\ last.args.images[1].width < last.args.images[2].width
    /\ last.args.images[1].height > last.args.images[2].height
    /\ last.ret = <<last.args.images[2].width, last.args.images[1].height>>

\* The last call was process_layers_to_psd and it built a document
Composited == last.op = "process_layers_to_psd" /\ ~IsNone(last.psd)

\* The layer of the document built by call c that was made from input image i
\* (the document lists its layers in reverse input order)
LayerOf(c, i) == c.psd.layers[Len(c.args.image_tensors) + 1 - i]

\* The source image i of call c, and where its top-left corner should be
SourceOf(c, i) == tensor_to_pil_image(c.args.image_tensors[i])
OffsetX(c, i) == (c.psd.width - SourceOf(c, i).width) \div 2
OffsetY(c, i) == (c.psd.height - SourceOf(c, i).height) \div 2

\* The canvas pixel p lies in the centred rectangle of source image i of call c
InRectangle(c, i, p) ==
    /\ OffsetX(c, i) <= p[1] /\ p[1] < OffsetX(c, i) + SourceOf(c, i).width
    /\ OffsetY(c, i) <= p[2] /\ p[2] < OffsetY(c, i) + SourceOf(c, i).height

C10_PaddingIsTransparent ==
    Composited =>
        \A i \in 1 .. Len(last.args.image_tensors) :
            \A p \in Coords(last.psd.width, last.psd.height) :
                ~InRectangle(last, i, p) => LayerOf(last, i).image.px[p].a = 0

\* ---------------------------------------------------------------- raster functions

\* The rasters drawn pixel by pixel: every size up to MaxMaskW x MaxMaskH, every
\* assignment of black, mid-grey or white to the pixels
MaskSizes == (1 .. MaxMaskW) \X (1 .. MaxMaskH)
MaskLevels == {0, 128, 255}
PilMasks ==
    UNION { { [kind |-> "image", mode |-> "L", width |-> size[1], height |-> size[2],
               px |-> f] : f \in [Coords(size[1], size[2]) -> MaskLevels] }
            : size \in MaskSizes }

\* An image of the given size and mode whose pixels all differ
PilImage(width, height, mode) ==
    [kind |-> "image", mode |-> mode, width |-> width, height |-> height,
     px |-> [p \in Coords(width, height) |->
                LET rgb == <<10 + p[1], 20 + p[2], 30 + p[1] + p[2]>>
                IN  IF mode = "RGBA" THEN [rgb |-> rgb, a |-> 77] ELSE rgb]]

\* The record of an application of a function: it changes nothing else
Applied(op, args, r) ==
    Call(op, args, "ok", <<>>,
         [ret |-> r, exc |-> NoneV, wrote |-> NoneV, psd |-> NoneV,
          final_output_path |-> NoneV, inner |-> NoneV])

\* A caller applies apply_mask_to_image to an image and a mask of its size
ApplyMaskToImage ==
    /\ ncalls < MaxApplications
    /\ ncalls' = ncalls + 1
    /\ \E mask \in PilMasks, mode \in {"RGB", "RGBA"} :
        LET args == [image |-> PilImage(mask.width, mask.height, mode), mask |-> mask]
        IN  \E r \in { apply_mask_to_image(args.image, args.mask) } :
                last' = Applied("apply_mask_to_image", args, r)
    /\ UNCHANGED <<fs, dirs, PSD_TOOLS_AVAILABLE, PYTOSHOP_AVAILABLE, prev, inflight>>

\* The directory contents generate_unique_filename is run against: any of
\* {name}.psd and {name}_001.psd .. for the name asked for, and possibly a file
\* of another name
ExistingFiles(name) ==
    { [q \in S |-> Corrupt] :
        S \in SUBSET ( { Path(OutputDir, name, "base", 0),
                         Path(OutputDir, "other", "base", 0) }
                       \cup { Path(OutputDir, name, "num", k) : k \in 1 .. MaxFiles } ) }

\* A caller applies generate_unique_filename in a directory holding some files
GenerateUniqueFilename ==
    /\ ncalls < MaxApplications
    /\ ncalls' = ncalls + 1
    /\ \E name \in Prefixes :
        \E files \in ExistingFiles(name) :
            LET args == [files |-> files, base_path |-> name, output_dir |-> OutputDir]
            IN  \E r \in { generate_unique_filename(files, name, OutputDir) } :
                    last' = Applied("generate_unique_filename", args, r)
    /\ UNCHANGED <<fs, dirs, PSD_TOOLS_AVAILABLE, PYTOSHOP_AVAILABLE, prev, inflight>>

\* A caller applies one of the two save_psd_file functions to an empty
\* document; the file system lets the write through, refuses to open the file,
\* or fails part way
SavePsdFile ==
    /\ ncalls < MaxApplications
    /\ ncalls' = ncalls + 1
    /\ \E backend \in {"psd_tools", "pytoshop"}, size \in MaskSizes,
          io \in {"ok", "open_fails", "write_fails"} :
        LET args == [backend |-> backend,
                     psd |-> create_psd_from_layers(<<>>, size[1], size[2]),
                     filepath |-> Path(OutputDir, "output", "base", 0)]
        IN  \E r \in { IF backend = "psd_tools"
                           THEN save_psd_file(fs, args.psd, args.filepath, io)
                           ELSE conversion_save_psd_file(fs, args.psd, args.filepath, io) } :
                /\ fs' = r.files
                /\ last' = Call("save_psd_file", args, io, fs,
                                [ret |-> r.ok, exc |-> NoneV, wrote |-> NoneV, psd |-> NoneV,
                                 final_output_path |-> NoneV, inner |-> NoneV])
    /\ UNCHANGED <<dirs, PSD_TOOLS_AVAILABLE, PYTOSHOP_AVAILABLE, prev, inflight>>

\* A caller applies load_psd_file to the document in ./input, to a file in
\* ./output whose write failed part way, or to a path where there is nothing
LoadPsdFile ==
    /\ ncalls < MaxApplications
    /\ ncalls' = ncalls + 1
    /\ \E files \in { fs, WriteFile(fs, Path(OutputDir, "output", "base", 0), Corrupt) } :
        \E filepath \in (DOMAIN files) \cup {MissingPath} :
        LET args == [files |-> files, filepath |-> filepath]
        IN  \E r \in { load_psd_file(files, filepath) } :
                last' = Call("load_psd_file", args, "ok", fs,
                             [ret |-> r, exc |-> NoneV, wrote |-> NoneV, psd |-> NoneV,
                              final_output_path |-> NoneV,
                              inner |-> load_psd_file_calls(files, filepath)])
    /\ UNCHANGED <<fs, dirs, PSD_TOOLS_AVAILABLE, PYTOSHOP_AVAILABLE, prev, inflight>>

\* The samples the buffers given to the normalizers are filled with: floats
\* (in thousandths) below, inside and above [0, 1], and integers
Samples ==
    { [floating |-> TRUE, v |-> v] : v \in {-500, 0, 500, 1000, 1500} }
        \cup { [floating |-> FALSE, v |-> v] : v \in {0, 1, 200} }

\* A caller applies tensor_to_pil_image to a batch of one H x W image with C
\* channels, laid out channel-last or, for 1, 3 and 4 channels, channel-first
TensorToPilImage ==
    /\ ncalls < MaxApplications
    /\ ncalls' = ncalls + 1
    /\ \E H \in 1 .. MaxSide, W \in 1 .. MaxSide, C \in 1 .. MaxChannels,
          layout \in {"channel_last", "channel_first"}, sample \in Samples :
        /\ layout = "channel_first" => C \in {1, 3, 4}
        /\ LET shape == IF layout = "channel_last" THEN <<1, H, W, C>> ELSE <<1, C, H, W>>
               args == [image_tensor |-> ImageTensor(shape, sample.floating, sample.v),
                        layout |-> layout, H |-> H, W |-> W, C |-> C]
           IN  \E r \in { tensor_to_pil_image(args.image_tensor) } :
                   last' = Applied("tensor_to_pil_image", args, r)
    /\ UNCHANGED <<fs, dirs, PSD_TOOLS_AVAILABLE, PYTOSHOP_AVAILABLE, prev, inflight>>

NextRaster ==
    \/ ApplyMaskToImage
    \/ GenerateUniqueFilename
    \/ SavePsdFile
    \/ LoadPsdFile

SpecRaster == Init /\ [][NextRaster]_vars

\* C11: apply_mask_to_image on an image and a mode L mask of the same size
\* gives an RGBA image whose alpha sample at every pixel is exactly the mask
\* sample there and whose R, G, B samples are the image's.
C11_AlphaIsTheMask ==
    ( /\ last.op = "apply_mask_to_image"
      /\ last.args.mask.mode = "L"
      /\ last.args.mask.width = last.args.image.width
      /\ last.args.mask.height = last.args.image.height )
    => /\ last.ret.mode = "RGBA"
       /\ last.ret.width = last.args.image.width
       /\ last.ret.height = last.args.image.height
       /\ \A p \in Coords(last.args.image.width, last.args.image.height) :
             /\ last.ret.px[p].a = last.args.mask.px[p]
             /\ last.ret.px[p].rgb = IF last.args.image.mode = "RGBA"
                                         THEN last.args.image.px[p].rgb
                                         ELSE last.args.image.px[p]

\* C11 witness: a mask holding black, mid-grey and white was applied to an RGB
\* image and is read back from the alpha channel
C11_Witness ==
    /\ last.op = "apply_mask_to_image"
    /\ last.args.image.mode = "RGB"
    /\ \A level \in MaskLevels :
          \E p \in DOMAIN last.args.mask.px :
              last.args.mask.px[p] = level /\ last.ret.px[p].a = level

\* ---------------------------------------------------------------- concurrent saves

\* Saves by process_layers_to_psd that run at the same time, all with the same
\* output_dir and filename_prefix.  Each works on its own buffers; the file
\* system is what they share.  A save is at "start" when it has been called,
\* at "chosen" when generate_unique_filename has returned its output_path, and
\* at "done" when it has returned.
Invocations == 1 .. MaxInvocations

Update(f, i, v) == [j \in (DOMAIN f) \cup {i} |-> IF j = i THEN v ELSE f[j]]

\* Invocation i is called with n layers
BeginSave(i) ==
    /\ i \notin DOMAIN inflight
    /\ \E n \in 1 .. MaxSlots, io \in {"ok", "write_fails"} :
        inflight' = Update(inflight, i,
            [pc |-> "start", io |-> io,
             args |-> [image_tensors |-> [k \in 1 .. n |-> SlotLayer(k)],
                       layer_names |-> [k \in 1 .. n |-> LayerNames[k]],
                       mask_tensors |-> NoneV,
                       output_dir |-> OutputDir, filename_prefix |-> "output"],
             output_path |-> NoneV, psd |-> NoneV, ret |-> NoneV])
    /\ UNCHANGED <<fs, dirs, PSD_TOOLS_AVAILABLE, PYTOSHOP_AVAILABLE, last, prev, ncalls>>

\* Invocation i runs up to and including generate_unique_filename: it builds
\* its document and picks the first name that does not exist now; an exception
\* before that ends the call
ChooseName(i) ==
    /\ i \in DOMAIN inflight
    /\ inflight[i].pc = "start"
    /\ \E r \in { process_layers_to_psd(fs, dirs, inflight[i].args.image_tensors,
                                         inflight[i].args.layer_names,
                                         inflight[i].args.mask_tensors,
                                         inflight[i].args.output_dir,
                                         inflight[i].args.filename_prefix,
                                         inflight[i].io) } :
        inflight' = Update(inflight, i,
            IF IsRaise(r.exc)
                THEN [inflight[i] EXCEPT !.pc = "done", !.ret = r.ret]
                ELSE [inflight[i] EXCEPT !.pc = "chosen", !.output_path = r.wrote,
                                         !.psd = r.psd])
    /\ UNCHANGED <<fs, dirs, PSD_TOOLS_AVAILABLE, PYTOSHOP_AVAILABLE, last, prev, ncalls>>

\* Invocation i makes the directory, writes its document at the path it chose
\* and returns
WriteChosen(i) ==
    /\ i \in DOMAIN inflight
    /\ inflight[i].pc = "chosen"
    /\ \E saved \in { save_psd_file(fs, inflight[i].psd, inflight[i].output_path,
                                      inflight[i].io) } :
        /\ fs' = saved.files
        /\ inflight' = Update(inflight, i,
              [inflight[i] EXCEPT !.pc = "done",
                                  !.ret = Tuple2(inflight[i].output_path, saved.ok)])
    /\ dirs' = dirs \cup {inflight[i].args.output_dir}
    /\ UNCHANGED <<PSD_TOOLS_AVAILABLE, PYTOSHOP_AVAILABLE, last, prev, ncalls>>

NextConcurrent ==
    \/ \E i \in Invocations : BeginSave(i)
    \/ \E i \in Invocations : ChooseName(i)
    \/ \E i \in Invocations : WriteChosen(i)

SpecConcurrent == Init /\ [][NextConcurrent]_vars

\* C12, as the specification states it: concurrent saves with the same
\* output_dir and filename_prefix each end up with their own output file: no
\* two of them that returned success wrote the same path, and each one's file
\* holds its own document.
C12_ConcurrentSavesOwnFiles ==
    \A i \in DOMAIN inflight, j \in DOMAIN inflight :
        ( /\ i # j
          /\ inflight[i].pc = "done" /\ inflight[i].ret.success
          /\ inflight[j].pc = "done" /\ inflight[j].ret.success )
        => /\ inflight[i].ret.path # inflight[j].ret.path
           /\ fs[inflight[i].ret.path] = inflight[i].psd

\* C13: generate_unique_filename returns {name}.psd in output_dir when that
\* file does not exist, and otherwise the first name of {name}_002.psd,
\* {name}_003.psd, ... (the counter going up by one per attempt) that does not
\* exist; the path returned never exists, and it is determined by the name, the
\* directory and the set of existing files.
C13_FirstFreeName ==
    last.op = "generate_unique_filename" =>
        LET files == last.args.files
            base == Path(last.args.output_dir, last.args.base_path, "base", 0)
            numbered(k) == Path(last.args.output_dir, last.args.base_path, "num", k)
        IN  /\ last.ret \notin DOMAIN files
            /\ last.ret.dir = last.args.output_dir
            /\ last.ret.prefix = last.args.base_path
            /\ IF base \notin DOMAIN files THEN last.ret = base
               ELSE /\ last.ret.suffix = "num"
                    /\ last.ret.n >= 2
                    /\ last.ret = numbered(last.ret.n)
                    /\ \A k \in 2 .. (last.ret.n - 1) : numbered(k) \in DOMAIN files

\* C13 witness: with {name}.psd and {name}_002.psd present, {name}_003.psd was
\* returned
C13_Witness ==
    /\ last.op = "generate_unique_filename"
    /\ Path(last.args.output_dir, last.args.base_path, "base", 0) \in DOMAIN last.args.files
    /\ Path(last.args.output_dir, last.args.base_path, "num", 2) \in DOMAIN last.args.files
    /\ last.ret = Path(last.args.output_dir, last.args.base_path, "num", 3)

\* C14: save_psd_file of either backend never raises: it returns True or
\* False; a write that fails (the file cannot be opened, or the write breaks
\* off) gives False, and True is returned only when the write completed, the
\* file then holding the document.
C14_SaveReturnsSuccessFlag ==
    last.op = "save_psd_file" =>
        /\ last.ret \in BOOLEAN
        /\ last.io \in {"open_fails", "write_fails"} => ~last.ret
        /\ last.ret => /\ last.io = "ok"
                       /\ exists(fs, last.args.filepath)
                       /\ fs[last.args.filepath] = last.args.psd
        /\ last.io = "open_fails" => fs = last.before

\* C14 witness: a save whose file could not be opened returned False and left
\* the file system as it was
C14_Witness ==
    /\ last.op = "save_psd_file"
    /\ last.io = "open_fails"
    /\ last.ret = FALSE
    /\ fs = last.before

\* C16, as the specification states it: load_psd_file fails with
\* FileNotFoundError exactly when the path does not exist, and with the load
\* error when the file exists and is not a readable PSD.
C16_NotFoundExactlyWhenAbsent ==
    last.op = "load_psd_file" =>
        /\ (last.ret = Raise("FileNotFoundError"))
              <=> ~exists(last.args.files, last.args.filepath)
        /\ (exists(last.args.files, last.args.filepath)
              /\ last.args.files[last.args.filepath].kind # "psd")
              => last.ret = Raise("LoadError")

\* C16, amended: when psd_tools is missing load_psd_file raises ImportError
\* before it looks at the path; otherwise it raises FileNotFoundError exactly
\* when the path does not exist, without calling PSDImage.open, and the load
\* error (a different exception) when the file exists and cannot be parsed.
C16_NotFoundBeforeParse ==
    last.op = "load_psd_file" =>
        LET there == exists(last.args.files, last.args.filepath)
        IN  /\ ~PSD_TOOLS_AVAILABLE => last.ret = Raise("ImportError")
            /\ PSD_TOOLS_AVAILABLE =>
                /\ (last.ret = Raise("FileNotFoundError")) <=> ~there
                /\ (there /\ last.args.files[last.args.filepath].kind # "psd")
                      <=> last.ret = Raise("LoadError")
                /\ (there /\ last.args.files[last.args.filepath].kind = "psd")
                      => last.ret = last.args.files[last.args.filepath]
            /\ ~there => \A i \in 1 .. Len(last.inner) : last.inner[i] # "PSDImage.open"
            /\ \A i \in 1 .. Len(last.inner) :
                  last.inner[i] = "PSDImage.open" =>
                      \E j \in 1 .. (i - 1) : last.inner[j] = "os.path.exists"

\* C16 witness: with psd_tools there, load_psd_file was applied to a file that
\* exists and is not a PSD and raised the load error
C16_Witness ==
    /\ last.op = "load_psd_file"
    /\ PSD_TOOLS_AVAILABLE
    /\ exists(last.args.files, last.args.filepath)
    /\ last.args.files[last.args.filepath] = Corrupt
    /\ last.ret = Raise("LoadError")
    /\ last.inner[Len(last.inner)] = "PSDImage.open"

\* The call addressed a layer of a parsable document that is not a pixel layer
NotPixelLayer(c) ==
    /\ exists(c.before, c.args.psd_file)
    /\ c.before[c.args.psd_file].kind = "psd"
    /\ c.args.layer_index >= 0
    /\ c.args.layer_index < Len(c.before[c.args.psd_file].layers)
    /\ c.before[c.args.psd_file].layers[c.args.layer_index + 1].kind # "PixelLayer"

\* C18: for an in-range index whose layer is not a pixel layer (a group),
\* extraction returns None for the image and for the mask and raises nothing,
\* and load_psd_layer catches its own "could not extract" error and returns
\* the placeholder: a black 1x512x512x3 image, a white 1x512x512 mask, "Error", 0.
C18_GroupLayerGivesPlaceholder ==
    /\ (last.op = "extract_layer_and_mask" /\ NotPixelLayer(last)) =>
          last.ret = [image |-> NoneV, mask |-> NoneV]
    /\ (last.op = "load_psd_layer" /\ PSD_TOOLS_AVAILABLE /\ NotPixelLayer(last)) =>
          /\ last.exc = Raise("ValueError: could not extract")
          /\ last.ret = LoadTuple(ConstTensor(<<1, 512, 512, 3>>, 0),
                                  ConstTensor(<<1, 512, 512>>, 255), "Error", 0)

\* C18 witness: load_psd_layer was run on the group of the document in ./input
\* after the group had been extracted from it, and returned the placeholder
C18_Witness ==
    /\ prev.op = "extract_layer_and_mask"
    /\ NotPixelLayer(prev)
    /\ IsNone(prev.ret.image)
    /\ last.op = "load_psd_layer"
    /\ PSD_TOOLS_AVAILABLE
    /\ NotPixelLayer(last)
    /\ last.before[last.args.psd_file].layers[last.args.layer_index + 1].kind = "Group"
    /\ last.ret.layer_name = "Error"

\* The mask buffers given to the mask normalizers: every assignment of float
\* samples, or of integer samples, to the pixels of a small raster
MaskBuffers ==
    UNION { { [floating |-> fl, width |-> size[1], height |-> size[2], px |-> f] :
                f \in [Coords(size[1], size[2]) ->
                          { x.v : x \in { y \in Samples : y.floating = fl } }] }
            : size \in MaskSizes, fl \in BOOLEAN }

\* A caller applies a mask normalizer to a batch of one mask laid out as
\* [B, H, W], [B, 1, H, W] or [B, 3, H, W]
NormalizeMask ==
    /\ ncalls < MaxApplications
    /\ ncalls' = ncalls + 1
    /\ \E op \in {"tensor_to_pil_mask", "process_mask_for_psd"}, buffer \in MaskBuffers,
          layout \in {"BHW", "B1HW", "B3HW"} :
        LET shape == CASE layout = "BHW"  -> <<1, buffer.height, buffer.width>>
                       [] layout = "B1HW" -> <<1, 1, buffer.height, buffer.width>>
                       [] OTHER           -> <<1, 3, buffer.height, buffer.width>>
            args == [mask |-> MaskTensor(shape, buffer.floating, buffer.px),
                     layout |-> layout, H |-> buffer.height, W |-> buffer.width]
        IN  \E r \in { IF op = "tensor_to_pil_mask" THEN tensor_to_pil_mask(args.mask)
                       ELSE process_mask_for_psd(args.mask) } :
                last' = Applied(op, args, r)
    /\ UNCHANGED <<fs, dirs, PSD_TOOLS_AVAILABLE, PYTOSHOP_AVAILABLE, prev, inflight>>

\* A caller gives the same buffer to the two image normalizers.  Casting a
\* float outside 0 .. 255 to uint8 is undefined: the cast of tensor_to_numpy_array
\* wraps on some builds and saturates on others.
NormalizeImage ==
    /\ ncalls < MaxApplications
    /\ ncalls' = ncalls + 1
    /\ \E H \in 1 .. MaxSide, W \in 1 .. MaxSide, C \in {1, 3, 4},
          layout \in {"channel_last", "channel_first"}, sample \in Samples,
          cast \in {"wraps", "saturates"} :
        LET shape == IF layout = "channel_last" THEN <<1, H, W, C>> ELSE <<1, C, H, W>>
            args == [image_tensor |-> ImageTensor(shape, sample.floating, sample.v),
                     layout |-> layout, H |-> H, W |-> W, C |-> C]
            in_range == ~sample.floating \/ (sample.v >= 0 /\ sample.v <= 1000)
            wrapped == tensor_to_numpy_array(args.image_tensor)
            array == IF in_range \/ cast = "wraps" THEN wrapped
                     ELSE ndarray(wrapped.shape,
                                  [c \in DOMAIN wrapped.pixel |->
                                      IF sample.v < 0 THEN 0 ELSE 255])
        IN  /\ cast = "saturates" => ~in_range
            /\ \E r \in { [pil |-> tensor_to_pil_image(args.image_tensor),
                            array |-> array] } :
                   last' = Applied("normalizers", args, r)
    /\ UNCHANGED <<fs, dirs, PSD_TOOLS_AVAILABLE, PYTOSHOP_AVAILABLE, prev, inflight>>

NextNormalizer ==
    \/ TensorToPilImage
    \/ NormalizeMask
    \/ NormalizeImage

SpecNormalizer == Init /\ [][NextNormalizer]_vars

\* C19: tensor_to_pil_image returns, for a 4-D buffer that is channel-last
\* [B, H, W, C] or channel-first [B, C, H, W] with C in {1, 3, 4}, an RGB
\* raster of three channels whose height is H and whose width is W.
C19_RasterHasBufferSize ==
    last.op = "tensor_to_pil_image" =>
        /\ last.ret.kind = "image"
        /\ last.ret.mode = "RGB"
        /\ last.ret.height = last.args.H
        /\ last.ret.width = last.args.W
        /\ \A p \in DOMAIN last.ret.px : Len(last.ret.px[p]) = 3

\* The 8-bit value of a sample: a float clamped to [0, 1] and the product with
\* 255 truncated, an integer kept
Expected8Bit(floating, v) ==
    IF floating THEN (Min(Max(v, 0), 1000) * 255) \div 1000 ELSE v

\* The height, width and samples of what a mask normalizer returned
RasterOf(c) ==
    IF c.op = "tensor_to_pil_mask"
        THEN [height |-> c.ret.height, width |-> c.ret.width, px |-> c.ret.px]
        ELSE [height |-> c.ret.shape[1], width |-> c.ret.shape[2], px |-> c.ret.px]

\* C20: tensor_to_pil_mask and PSDMaskUtility.process_mask_for_psd turn a mask
\* buffer [B, H, W], [B, 1, H, W] or [B, 3, H, W] into the H x W 8-bit raster
\* of the first batch item, a floating sample v clamped to [0, 1] and mapped to
\* the truncation of v * 255, an integer sample in 0..255 kept unchanged.
C20_MaskSamplesClampedAndScaled ==
    last.op \in {"tensor_to_pil_mask", "process_mask_for_psd"} =>
        /\ ~IsRaise(last.ret)
        /\ RasterOf(last).height = last.args.H
        /\ RasterOf(last).width = last.args.W
        /\ \A p \in Coords(last.args.W, last.args.H) :
              RasterOf(last).px[p] = Expected8Bit(last.args.mask.floating, last.args.mask.px[p])

\* ---------------------------------------------------------------- pytoshop save nodes

\* What "from utils.apz_psd_conversion import ...; from utils.apz_psd_mask_utility
\* import PSDMaskUtility" does.  With pytoshop missing nested_layers is None:
\* an interpreter that evaluates annotations when a function is defined raises
\* AttributeError at "-> nested_layers.Layer"; one that defers them gets as far
\* as "import pytoshop" in the mask utility, which raises ImportError.
import_utils(annotations) ==
    IF PYTOSHOP_AVAILABLE THEN NoneV
    ELSE IF annotations = "eager" THEN Raise("AttributeError")
    ELSE Raise("ImportError")

\* Importing a node module: "except ImportError" defines the stubs, any other
\* exception leaves the module unloaded
import_node_module(annotations) ==
    IF import_utils(annotations) = Raise("ImportError") THEN [kind |-> "stubs"]
    ELSE IF IsRaise(import_utils(annotations)) THEN import_utils(annotations)
    ELSE [kind |-> "functions"]

\* color.lstrip('#') as its sequence of characters
HexDigits ==
    [c \in {"0", "8", "F"} |-> CASE c = "0" -> 0 [] c = "8" -> 8 [] OTHER -> 15]

parse_hex_color(color) ==
    IF Len(color) = 6
        THEN <<16 * HexDigits[color[1]] + HexDigits[color[2]],
               16 * HexDigits[color[3]] + HexDigits[color[4]],
               16 * HexDigits[color[5]] + HexDigits[color[6]]>>
        ELSE <<255, 255, 255>>

\* nodes/apzPSDLayerSaver.py _create_background_layer: np is not a name of
\* that module
saver_create_background_layer(width, height, color, opacity) ==
    Raise("NameError")

\* nodes/apzPSDLayerSaver8Layers.py _create_background_layer (both classes):
\* np.full((height, width, 3), [r, g, b])
create_background_layer_filled(width, height, color, opacity) ==
    ndarray(<<height, width, 3>>, parse_hex_color(color))

Tuple3(path, success, layer_count) ==
    [kind |-> "tuple", path |-> path, success |-> success, layer_count |-> layer_count]

\* f"Layer {len(layer_name_list) + 1}"
DefaultName == <<"Layer 1", "Layer 2", "Layer 3">>

\* Creating the directory of the file, writing the document, returning the tuple
write_document(files, directories, layers, color_mode, output_path, io) ==
    LET psd == conversion_create_psd_from_layers(layers, color_mode)
        saved == conversion_save_psd_file(files, psd, output_path, io)
    IN  IF IsRaise(psd)
            THEN SaveResult(files, directories, Tuple3(output_path, FALSE, 0), psd, NoneV, NoneV)
        ELSE IF makedirs_fails(directories, output_path.dir, io)
            THEN SaveResult(files, directories, Tuple3(output_path, FALSE, 0),
                            Raise("OSError"), NoneV, NoneV)
        ELSE SaveResult(saved.files, directories \cup {output_path.dir},
                        Tuple3(output_path, saved.ok, Len(layers)), NoneV,
                        output_path, psd)

save_psd_layers_advanced(module, files, directories, images, layer_names, output_path, create_background_layer, masks, background_color, background_opacity, io) ==
    LET failed(e) == SaveResult(files, directories, Tuple3(output_path, FALSE, 0), e,
                                NoneV, NoneV)
        num_images == Len(images)
        layer_name_list ==
            [i \in 1 .. Max(num_images, Len(layer_names)) |->
                IF i <= Len(layer_names) THEN layer_names[i] ELSE DefaultName[i]]
        processed == IF IsNone(masks) THEN <<>>
                     ELSE [i \in 1 .. Len(masks.items) |-> process_mask_for_psd(masks.items[i])]
        mask_list == IF IsNone(masks) THEN NoneV ELSE List(processed)
        layers == batch_tensors_to_psd_layers(images, layer_name_list, mask_list,
                                              [i \in 1 .. num_images |-> 255],
                                              [i \in 1 .. num_images |-> "normal"])
        first_image == tensor_to_numpy_array(images[1])
        background_data ==
            saver_create_background_layer(first_image.shape[2], first_image.shape[1],
                                          background_color, background_opacity)
        background_layer == create_psd_layer(background_data, "Background", NoneV,
                                             background_opacity, "normal")
    IN  \* the stub PSDMaskUtility has no process_mask_for_psd; the other stubs raise
        IF module.kind = "stubs"
            THEN IF ~IsNone(masks) /\ Len(masks.items) > 0
                     THEN failed(Raise("AttributeError"))
                     ELSE failed(Raise("ImportError"))
        ELSE IF IsRaise(FirstRaise(processed)) THEN failed(FirstRaise(processed))
        ELSE IF IsRaise(layers) THEN failed(layers)
        ELSE IF create_background_layer = "true"
            THEN IF num_images = 0 THEN failed(Raise("IndexError"))
                 ELSE IF IsRaise(first_image) THEN failed(first_image)
                 ELSE IF IsRaise(background_data) THEN failed(background_data)
                 ELSE IF IsRaise(background_layer) THEN failed(background_layer)
                 ELSE write_document(files, directories,
                                     <<background_layer>> \o layers.items,
                                     "rgb", output_path, io)
        ELSE write_document(files, directories, layers.items, "rgb", output_path, io)

\* The slots that hold an image, in slot order
provided(images) ==
    SelectSeq([i \in 1 .. Len(images) |-> i], LAMBDA i : ~IsNone(images[i]))

save_8_layers_psd(module, files, directories, images, masks, layer_names, psd_filename, create_background_layer, background_color, background_opacity, io) ==
    LET failed(e) == SaveResult(files, directories, Tuple3(psd_filename, FALSE, 0), e,
                                NoneV, NoneV)
        valid_masks == [i \in 1 .. Len(masks) |->
                           IF ~IsNone(masks[i]) THEN process_mask_for_psd(masks[i])
                           ELSE NoneV]
        slots == provided(images)
        one(i) == LET image_data == tensor_to_numpy_array(images[i])
                  IN  IF IsRaise(image_data) THEN image_data
                      ELSE create_psd_layer(image_data, layer_names[i], valid_masks[i],
                                            255, "normal")
        layers == [j \in 1 .. Len(slots) |-> one(slots[j])]
        first_image == tensor_to_numpy_array(images[slots[1]])
        height == IF Len(slots) > 0 THEN first_image.shape[1] ELSE BackgroundSize
        width == IF Len(slots) > 0 THEN first_image.shape[2] ELSE BackgroundSize
        background_layer ==
            create_psd_layer(
                create_background_layer_filled(width, height, background_color,
                                               background_opacity),
                "Background", NoneV, background_opacity, "normal")
    IN  \* every stub raises ImportError, and every path calls one
        IF module.kind = "stubs" THEN failed(Raise("ImportError"))
        ELSE IF IsRaise(FirstRaise(valid_masks)) THEN failed(FirstRaise(valid_masks))
        ELSE IF IsRaise(FirstRaise(layers)) THEN failed(FirstRaise(layers))
        ELSE IF create_background_layer = "true"
            THEN IF IsRaise(background_layer) THEN failed(background_layer)
                 ELSE write_document(files, directories, <<background_layer>> \o layers,
                                     "rgb", psd_filename, io)
        ELSE write_document(files, directories, layers, "rgb", psd_filename, io)

\* The same body; the offsets it also takes are not used
save_8_layers_psd_advanced(module, files, directories, images, masks, layer_names, psd_filename, create_background_layer, background_color, background_opacity, io) ==
    save_8_layers_psd(module, files, directories, images, masks, layer_names, psd_filename, create_background_layer, background_color, background_opacity, io)

\* ---------------------------------------------------------------- pytoshop nodes: state machine

\* The i-th image of a batch of the given size <<w, h>>: channel-last, float
BatchImage(i, size) == ImageTensor(<<1, size[2], size[1], 3>>, TRUE, 100 * i)

\* The mask given with it: white at <<0, 0>>, black elsewhere
BatchMask(size) ==
    MaskTensor(<<1, size[2], size[1]>>, TRUE,
               [p \in Coords(size[1], size[2]) |-> IF p = <<0, 0>> THEN 1000 ELSE 0])

\* background_color without its '#': white, red, and a string that is no colour
BackgroundColors == { <<"F", "F", "F", "F", "F", "F">>, <<"F", "F", "0", "0", "0", "0">>,
                      <<"F", "F", "F">> }

OutputPath == Path(OutputDir, "output", "base", 0)

\* Whether the interpreter evaluates a function's annotations when the function
\* is defined, or only when they are asked for
Annotations == {"eager", "deferred"}

\* The node module could not be loaded: the exception reaches whoever imported
\* it and no operation runs
NotLoaded(files, directories, e) ==
    SaveResult(files, directories, e, NoneV, NoneV, NoneV)

\* The filled slots the 8-layer nodes are run with
SlotSets8 == { {}, {1}, {1, 2}, {2, NumLayers} }

\* The host runs the advanced saver node on a batch of n images
SavePsdLayersAdvanced ==
    /\ ncalls < MaxPytoshopCalls
    /\ \E n \in 1 .. MaxLayers, size \in Sizes, with_masks \in BOOLEAN,
          create_background_layer \in {"true", "false"},
          background_color \in BackgroundColors, io \in IOs,
          annotations \in Annotations :
        \E m \in 0 .. n :
        LET args == [images |-> [i \in 1 .. n |-> BatchImage(i, size)],
                     layer_names |-> [i \in 1 .. m |-> LayerNames[i]],
                     output_path |-> OutputPath,
                     create_background_layer |-> create_background_layer,
                     masks |-> IF with_masks
                                   THEN List([i \in 1 .. n |-> BatchMask(size)])
                                   ELSE NoneV,
                     background_color |-> background_color,
                     annotations |-> annotations]
            module == import_node_module(annotations)
        IN  \E r \in { IF IsRaise(module) THEN NotLoaded(fs, dirs, module)
                       ELSE save_psd_layers_advanced(module, fs, dirs, args.images,
                                args.layer_names, args.output_path,
                                args.create_background_layer, args.masks,
                                args.background_color, 255, io) } :
                /\ fs' = r.files
                /\ dirs' = r.dirs
                /\ last' = Call("save_psd_layers_advanced", args, io, fs,
                                [ret |-> r.ret, exc |-> r.exc, wrote |-> r.wrote,
                                 psd |-> r.psd, final_output_path |-> NoneV,
                                 inner |-> NoneV])
    /\ prev' = last
    /\ ncalls' = ncalls + 1
    /\ UNCHANGED <<PSD_TOOLS_AVAILABLE, PYTOSHOP_AVAILABLE, inflight>>

\* The host runs one of the two 8-layer saver nodes with some slots filled
Save8LayersPsd ==
    /\ ncalls < MaxPytoshopCalls
    /\ \E op \in {"save_8_layers_psd", "save_8_layers_psd_advanced"}, S \in SlotSets8,
          size \in Sizes, with_masks \in BOOLEAN,
          create_background_layer \in {"true", "false"},
          background_color \in BackgroundColors, io \in IOs,
          annotations \in Annotations :
        LET args == [images |-> [i \in 1 .. NumLayers |->
                                    IF i \in S THEN BatchImage(i, size) ELSE NoneV],
                     masks |-> [i \in 1 .. NumLayers |->
                                    IF with_masks /\ i \in S THEN BatchMask(size) ELSE NoneV],
                     layer_names |-> [i \in 1 .. NumLayers |-> LayerNames[i]],
                     psd_filename |-> OutputPath,
                     create_background_layer |-> create_background_layer,
                     background_color |-> background_color,
                     annotations |-> annotations]
            module == import_node_module(annotations)
        IN  \E r \in { IF IsRaise(module) THEN NotLoaded(fs, dirs, module)
                       ELSE IF op = "save_8_layers_psd"
                           THEN save_8_layers_psd(module, fs, dirs, args.images, args.masks,
                                    args.layer_names, args.psd_filename,
                                    args.create_background_layer, args.background_color,
                                    255, io)
                           ELSE save_8_layers_psd_advanced(module, fs, dirs, args.images,
                                    args.masks,
                                    args.layer_names, args.psd_filename,
                                    args.create_background_layer, args.background_color,
                                    255, io) } :
                /\ fs' = r.files
                /\ dirs' = r.dirs
                /\ last' = Call(op, args, io, fs,
                                [ret |-> r.ret, exc |-> r.exc, wrote |-> r.wrote,
                                 psd |-> r.psd, final_output_path |-> NoneV,
                                 inner |-> NoneV])
    /\ prev' = last
    /\ ncalls' = ncalls + 1
    /\ UNCHANGED <<PSD_TOOLS_AVAILABLE, PYTOSHOP_AVAILABLE, inflight>>

NextPytoshop ==
    \/ SavePsdLayersAdvanced
    \/ Save8LayersPsd

SpecPytoshop == Init /\ [][NextPytoshop]_vars

\* The pytoshop save nodes, and the number of images a call was given
BackgroundNodes ==
    {"save_psd_layers_advanced", "save_8_layers_psd", "save_8_layers_psd_advanced"}

ImagesGiven(c) ==
    IF c.op = "save_psd_layers_advanced" THEN c.args.images
    ELSE [j \in 1 .. Len(provided(c.args.images)) |-> c.args.images[provided(c.args.images)[j]]]

NamesGiven(c) ==
    IF c.op = "save_psd_layers_advanced"
        THEN [i \in 1 .. Len(c.args.images) |->
                 IF i <= Len(c.args.layer_names) THEN c.args.layer_names[i] ELSE DefaultName[i]]
    ELSE [j \in 1 .. Len(provided(c.args.images)) |->
             c.args.layer_names[provided(c.args.images)[j]]]

\* A call with a background requested on valid inputs: the library is there,
\* there are images, no masks, and the file system lets the write through
ValidBackgroundCall(c) ==
    /\ c.op \in BackgroundNodes
    /\ PYTOSHOP_AVAILABLE
    /\ c.io = "ok"
    /\ c.args.create_background_layer = "true"
    /\ Len(ImagesGiven(c)) > 0
    /\ IF c.op = "save_psd_layers_advanced" THEN IsNone(c.args.masks)
       ELSE \A i \in 1 .. NumLayers : IsNone(c.args.masks[i])

\* The document starts with a solid layer named "Background" of the images'
\* size, the caller's layers follow in order, and the call reports success
\* with one layer more than images
BackgroundFirst(c) ==
    LET n == Len(ImagesGiven(c))
        size == <<ImagesGiven(c)[1].shape[2], ImagesGiven(c)[1].shape[3]>>
    IN  /\ c.ret = Tuple3(c.args[IF c.op = "save_psd_layers_advanced"
                                     THEN "output_path" ELSE "psd_filename"], TRUE, n + 1)
        /\ ~IsNone(c.psd)
        /\ Len(c.psd.layers) = n + 1
        /\ c.psd.layers[1].name = "Background"
        /\ c.psd.layers[1].image_data.shape = <<size[1], size[2], 3>>
        /\ \A i \in 1 .. n : c.psd.layers[i + 1].name = NamesGiven(c)[i]

\* C15: with create_background_layer "true" and valid inputs, each of the
\* pytoshop save nodes (save_psd_layers_advanced, save_8_layers_psd,
\* save_8_layers_psd_advanced) writes a document whose first layer is a solid
\* layer named "Background" of the canvas size followed by the caller's layers
\* in order, and returns success with layer_count = images + 1.
C15_BackgroundLayerFirst ==
    ValidBackgroundCall(last) => BackgroundFirst(last)

\* The operation's backing library could not be imported
LibraryMissing(c) ==
    \/ c.op \in BackgroundNodes /\ ~PYTOSHOP_AVAILABLE
    \/ c.op \in {"save_psd_layers", "load_psd_layer"} /\ ~PSD_TOOLS_AVAILABLE

\* C17: when the backing library of a node cannot be imported, the node's
\* operation raises nothing into the host, returns its failure result (None
\* for the multilayer saver, the placeholder tuple for load_psd_layer, success
\* = false for the pytoshop savers) and leaves the file system as it was.
C17_MissingLibraryIsNoOp ==
    LibraryMissing(last) =>
        /\ ~IsRaise(last.ret)
        /\ fs = last.before
        /\ last.op \in BackgroundNodes => last.ret.success = FALSE
        /\ last.op = "load_psd_layer" => last.ret = LoadDefault
        /\ last.op = "save_psd_layers" => IsNone(last.ret)

\* ---------------------------------------------------------------- Mixed masks

\* The pixel that is white in the mask offered to slot i
MaskPixel(i) == <<(i - 1) % 2, ((i - 1) \div 2) % 2>>

\* The mask offered to slot i: 2 x 2, float, white at MaskPixel(i) only, so
\* that the masks of different slots differ
SlotMask(i) == MaskTensor(<<1, 2, 2>>, TRUE,
                          [p \in Coords(2, 2) |-> IF p = MaskPixel(i) THEN 1000 ELSE 0])

\* The node's mask arguments when the slots of M carry a mask
MixedMasks(M) == [i \in 1 .. NumSlots |-> IF i \in M THEN SlotMask(i) ELSE NoneV]

\* The host runs the multilayer saver node with layers in the slots of S and
\* masks in the slots of M, filled or not
SaveMixedMasks ==
    /\ ncalls < MaxApplications
    /\ \E S \in SUBSET (1 .. MaxSlots), M \in SUBSET (1 .. MaxSlots),
          overwrite_mode \in {"false", "true"}, io \in IOs :
        LET args == [output_dir |-> Str(OutputDir), filename_prefix |-> Str("output"),
                     overwrite_mode |-> overwrite_mode,
                     layers |-> NodeLayers(S, FALSE), masks |-> MixedMasks(M),
                     layer_names |-> NodeNames(S)]
        IN  \E r \in { save_psd_layers(fs, dirs, args.output_dir, args.filename_prefix,
                                       args.overwrite_mode, args.layers, args.masks,
                                       args.layer_names, io, ncalls) } :
                /\ fs' = r.files
                /\ dirs' = r.dirs
                /\ last' = Call("save_psd_layers", args, io, fs, r)
    /\ prev' = last
    /\ ncalls' = ncalls + 1
    /\ UNCHANGED <<PSD_TOOLS_AVAILABLE, PYTOSHOP_AVAILABLE, inflight>>

\* test_mask_saving.py, Test 3: process_layers_to_psd with a mask list that
\* has None for some of its layers
ProcessMixedMasks ==
    /\ ncalls < MaxApplications
    /\ \E n \in 1 .. MaxSlots, io \in IOs :
        \E M \in SUBSET (1 .. n) :
        LET args == [image_tensors |-> [i \in 1 .. n |-> SlotLayer(i)],
                     layer_names |-> [i \in 1 .. n |-> LayerNames[i]],
                     mask_tensors |-> List([i \in 1 .. n |-> MixedMasks(M)[i]]),
                     output_dir |-> OutputDir, filename_prefix |-> "output"]
        IN  \E r \in { process_layers_to_psd(fs, dirs, args.image_tensors,
                                             args.layer_names, args.mask_tensors,
                                             args.output_dir, args.filename_prefix, io) } :
                /\ fs' = r.files
                /\ dirs' = r.dirs
                /\ last' = Call("process_layers_to_psd", args, io, fs,
                                [ret |-> r.ret, exc |-> r.exc, wrote |-> r.wrote,
                                 psd |-> r.psd, final_output_path |-> NoneV,
                                 inner |-> NoneV])
    /\ prev' = last
    /\ ncalls' = ncalls + 1
    /\ UNCHANGED <<PSD_TOOLS_AVAILABLE, PYTOSHOP_AVAILABLE, inflight>>

NextMixed == SaveMixedMasks \/ ProcessMixedMasks

SpecMixed == Init /\ [][NextMixed]_vars

\* The slots of a mixed-mask call that hold a layer, in slot order, and the
\* mask and the name given with slot i
MixedSlots(c) ==
    IF c.op = "save_psd_layers" THEN valid_slots(c.args.layers, 1)
    ELSE [i \in 1 .. Len(c.args.image_tensors) |-> i]
MixedMaskOf(c, i) ==
    IF c.op = "save_psd_layers" THEN c.args.masks[i] ELSE c.args.mask_tensors.items[i]
MixedNameOf(c, i) ==
    IF c.op = "process_layers_to_psd" THEN c.args.layer_names[i]
    ELSE IF IsNone(c.args.layer_names[i]) THEN DefaultLayerNames[i]
    ELSE c.args.layer_names[i].s

\* A mixed-mask call with at least one layer, the library present and a
\* working file system
MixedCall(c) ==
    /\ c.op \in {"save_psd_layers", "process_layers_to_psd"}
    /\ PSD_TOOLS_AVAILABLE
    /\ c.io = "ok"
    /\ Len(MixedSlots(c)) >= 1

\* The tuple process_layers_to_psd returned in a call
MixedReturn(c) == IF c.op = "save_psd_layers" THEN c.inner ELSE c.ret

\* C21: with mixed masks (masks in some slots, None in others, some slots
\* empty) the save succeeds and every provided layer is stored once, under its
\* own name, with the mask of its own slot as its transparency: 255 where that
\* mask is white and 0 where it is black, and 255 everywhere when the slot has
\* no mask. (The document lists the layers last slot first.)
C21_MixedMasksStayAligned ==
    MixedCall(last) =>
        LET valid == MixedSlots(last)
            n == Len(valid)
        IN  /\ MixedReturn(last).success
            /\ last.wrote \in DOMAIN fs
            /\ Len(last.psd.layers) = n
            /\ \A j \in 1 .. n :
                  LET layer == last.psd.layers[n + 1 - j]
                      mask == MixedMaskOf(last, valid[j])
                  IN  /\ layer.name = MixedNameOf(last, valid[j])
                      /\ \A p \in Coords(2, 2) :
                            layer.image.px[p].a =
                                IF IsNone(mask) THEN 255
                                ELSE IF p = MaskPixel(valid[j]) THEN 255 ELSE 0

\* A node call with a masked layer in slot 1, an empty slot 2 that was handed
\* a mask all the same, and an unmasked layer in the last slot
C21_Witness ==
    /\ MixedCall(last)
    /\ last.op = "save_psd_layers"
    /\ MixedSlots(last) = <<1, MaxSlots>>
    /\ ~IsNone(last.args.masks[1])
    /\ ~IsNone(last.args.masks[2])
    /\ IsNone(last.args.masks[MaxSlots])
    /\ MixedReturn(last).success

\* ---------------------------------------------------------------- Layers of different sizes

\* The host runs one of the two 8-layer saver nodes with images whose sizes
\* need not agree: the first filled slot holds an image of size `first`, the
\* other filled slots hold images of size `rest`
Save8LayersSized ==
    /\ ncalls < MaxPytoshopCalls
    /\ \E op \in {"save_8_layers_psd", "save_8_layers_psd_advanced"}, S \in SlotSets8,
          first \in Sizes, rest \in Sizes,
          create_background_layer \in {"true", "false"}, io \in IOs,
          annotations \in Annotations :
        LET size(i) == IF \A j \in S : i <= j THEN first ELSE rest
            args == [images |-> [i \in 1 .. NumLayers |->
                                    IF i \in S THEN BatchImage(i, size(i)) ELSE NoneV],
                     masks |-> [i \in 1 .. NumLayers |-> NoneV],
                     layer_names |-> [i \in 1 .. NumLayers |-> LayerNames[i]],
                     psd_filename |-> OutputPath,
                     create_background_layer |-> create_background_layer,
                     background_color |-> <<"F", "F", "F", "F", "F", "F">>,
                     annotations |-> annotations]
            module == import_node_module(annotations)
        IN  \E r \in { IF IsRaise(module) THEN NotLoaded(fs, dirs, module)
                       ELSE IF op = "save_8_layers_psd"
                           THEN save_8_layers_psd(module, fs, dirs, args.images, args.masks,
                                    args.layer_names, args.psd_filename,
                                    args.create_background_layer, args.background_color,
                                    255, io)
                           ELSE save_8_layers_psd_advanced(module, fs, dirs, args.images,
                                    args.masks,
                                    args.layer_names, args.psd_filename,
                                    args.create_background_layer, args.background_color,
                                    255, io) } :
                /\ fs' = r.files
                /\ dirs' = r.dirs
                /\ last' = Call(op, args, io, fs,
                                [ret |-> r.ret, exc |-> r.exc, wrote |-> r.wrote,
                                 psd |-> r.psd, final_output_path |-> NoneV,
                                 inner |-> [is_valid |->
                                     IF IsNone(r.psd) THEN NoneV
                                     ELSE validate_layer_dimensions(r.psd.layers)]])
    /\ prev' = last
    /\ ncalls' = ncalls + 1
    /\ UNCHANGED <<PSD_TOOLS_AVAILABLE, PYTOSHOP_AVAILABLE, inflight>>

NextSized == Save8LayersSized

SpecSized == Init /\ [][NextSized]_vars

\* A call of an 8-layer node with the library present and a working file system
SizedCall(c) ==
    /\ c.op \in {"save_8_layers_psd", "save_8_layers_psd_advanced"}
    /\ PYTOSHOP_AVAILABLE
    /\ c.io = "ok"

\* Two layers of the list differ in height or in width
SizesDiffer(layers) ==
    \E i, j \in 1 .. Len(layers) :
        SubSeq(layers[i].image_data.shape, 1, 2) # SubSeq(layers[j].image_data.shape, 1, 2)

\* C22: in the pytoshop save nodes validate_layer_dimensions is false exactly
\* when the layers differ in height or width or there is no layer, and a
\* mismatch is only reported: the document is still built from every layer
\* and written, and the call returns success = true.
C22_MismatchIsOnlyWarned ==
    SizedCall(last) =>
        /\ ~IsNone(last.psd)
        /\ last.inner.is_valid = (Len(last.psd.layers) > 0 /\ ~SizesDiffer(last.psd.layers))
        /\ Len(last.psd.layers) = Len(ImagesGiven(last))
               + (IF last.args.create_background_layer = "true" THEN 1 ELSE 0)
        /\ last.ret.success
        /\ last.ret.layer_count = Len(last.psd.layers)
        /\ last.wrote \in DOMAIN fs /\ fs[last.wrote] = last.psd

\* Two images of the same height and different widths were saved, and the
\* validation said no
C22_Witness ==
    /\ SizedCall(last)
    /\ Len(ImagesGiven(last)) = 2
    /\ last.args.create_background_layer = "false"
    /\ last.psd.layers[1].image_data.shape[1] = last.psd.layers[2].image_data.shape[1]
    /\ last.psd.layers[1].image_data.shape[2] # last.psd.layers[2].image_data.shape[2]
    /\ last.inner.is_valid = FALSE
    /\ last.ret.success

\* ---------------------------------------------------------------- Saver node: opacities

\* The decimal digits of int(text), text being a stripped line given as its
\* characters
Digits ==
    [c \in {"0", "1", "2", "3", "4", "5", "6", "7", "8", "9"} |->
        CASE c = "0" -> 0 [] c = "1" -> 1 [] c = "2" -> 2 [] c = "3" -> 3 [] c = "4" -> 4
          [] c = "5" -> 5 [] c = "6" -> 6 [] c = "7" -> 7 [] c = "8" -> 8 [] OTHER -> 9]

RECURSIVE digits_value(_)
digits_value(text) ==
    IF text = <<>> THEN 0
    ELSE 10 * digits_value(SubSeq(text, 1, Len(text) - 1)) + Digits[text[Len(text)]]

\* Whether int(text) returns: text is an optional sign followed by digits
is_int(text) ==
    LET body == IF text # <<>> /\ text[1] \in {"-", "+"} THEN Tail(text) ELSE text
    IN  body # <<>> /\ \A i \in 1 .. Len(body) : body[i] \in DOMAIN Digits

int(text) ==
    IF text[1] = "-" THEN 0 - digits_value(Tail(text))
    ELSE IF text[1] = "+" THEN digits_value(Tail(text))
    ELSE digits_value(text)

\* [int(op.strip()) for op in opacities.split('\n') if op.strip()], the string
\* given as its lines; int raises ValueError on a line that is no number
parse_opacities(lines) ==
    LET kept == SelectSeq(lines, LAMBDA op : op # <<>>)
    IN  IF \E i \in 1 .. Len(kept) : ~is_int(kept[i]) THEN Raise("ValueError")
        ELSE List([i \in 1 .. Len(kept) |-> int(kept[i])])

\* nodes/apzPSDLayerSaver.py APZmediaPSDLayerSaver.save_psd_layers
saver_save_psd_layers(module, files, directories, images, layer_names, output_path, masks, opacities, io) ==
    LET failed(e) == SaveResult(files, directories, Tuple2(output_path, FALSE), e,
                                NoneV, NoneV)
        num_images == Len(images)
        layer_name_list ==
            [i \in 1 .. Max(num_images, Len(layer_names)) |->
                IF i <= Len(layer_names) THEN layer_names[i] ELSE DefaultName[i]]
        parsed == parse_opacities(opacities)
        opacity_list ==
            [i \in 1 .. Max(num_images, Len(parsed.items)) |->
                IF i <= Len(parsed.items) THEN parsed.items[i] ELSE 255]
        processed == IF IsNone(masks) THEN <<>>
                     ELSE [i \in 1 .. Len(masks.items) |-> process_mask_for_psd(masks.items[i])]
        mask_list == IF IsNone(masks) THEN NoneV ELSE List(processed)
        layers == batch_tensors_to_psd_layers(images, layer_name_list, mask_list,
                                              opacity_list,
                                              [i \in 1 .. num_images |-> "normal"])
        psd == conversion_create_psd_from_layers(layers.items, "rgb")
        saved == conversion_save_psd_file(files, psd, output_path, io)
    IN  IF IsRaise(parsed) THEN failed(parsed)
        \* the stub PSDMaskUtility has no process_mask_for_psd; the other stubs raise
        ELSE IF module.kind = "stubs"
            THEN IF ~IsNone(masks) /\ Len(masks.items) > 0
                     THEN failed(Raise("AttributeError"))
                     ELSE failed(Raise("ImportError"))
        ELSE IF IsRaise(FirstRaise(processed)) THEN failed(FirstRaise(processed))
        ELSE IF IsRaise(layers) THEN failed(layers)
        ELSE IF IsRaise(psd) THEN failed(psd)
        ELSE IF makedirs_fails(directories, output_path.dir, io) THEN failed(Raise("OSError"))
        ELSE SaveResult(saved.files, directories \cup {output_path.dir},
                        Tuple2(output_path, saved.ok), NoneV, output_path, psd)

\* The lines an opacity string is made of: in range, above it, below it, not a
\* number, and blank
OpacityLines == { <<"2", "5", "5">>, <<"0">>, <<"3", "0", "0">>, <<"-", "5">>, <<"x">>, <<>> }

OpacityStrings == UNION { [1 .. k -> OpacityLines] : k \in 0 .. MaxLayers }

\* The host runs the saver node on a batch of n images
SaverSavePsdLayers ==
    /\ ncalls < MaxPytoshopCalls
    /\ \E n \in 1 .. MaxLayers, opacities \in OpacityStrings, with_masks \in BOOLEAN,
          io \in IOs, annotations \in Annotations :
        LET args == [images |-> [i \in 1 .. n |-> BatchImage(i, <<2, 2>>)],
                     layer_names |-> [i \in 1 .. n |-> LayerNames[i]],
                     output_path |-> OutputPath,
                     masks |-> IF with_masks
                                   THEN List([i \in 1 .. n |-> BatchMask(<<2, 2>>)])
                                   ELSE NoneV,
                     opacities |-> opacities,
                     annotations |-> annotations]
            module == import_node_module(annotations)
        IN  \E r \in { IF IsRaise(module) THEN NotLoaded(fs, dirs, module)
                       ELSE saver_save_psd_layers(module, fs, dirs, args.images,
                                args.layer_names, args.output_path, args.masks,
                                args.opacities, io) } :
                /\ fs' = r.files
                /\ dirs' = r.dirs
                /\ last' = Call("saver_save_psd_layers", args, io, fs,
                                [ret |-> r.ret, exc |-> r.exc, wrote |-> r.wrote,
                                 psd |-> r.psd, final_output_path |-> NoneV,
                                 inner |-> NoneV])
    /\ prev' = last
    /\ ncalls' = ncalls + 1
    /\ UNCHANGED <<PSD_TOOLS_AVAILABLE, PYTOSHOP_AVAILABLE, inflight>>

NextSaver == SaverSavePsdLayers

SpecSaver == Init /\ [][NextSaver]_vars

\* C23, as the specification states it: every layer handed to the document
\* builder has an opacity within 0..255, whatever opacity string the saver
\* node was given.
C23_OpacityWithinByte ==
    (last.op = "saver_save_psd_layers" /\ ~IsNone(last.psd)) =>
        \A i \in 1 .. Len(last.psd.layers) : last.psd.layers[i].opacity \in 0 .. 255

\* ---------------------------------------------------------------- Layer masks of other programs

\* The bounding boxes a mask record can carry: any place, 1 .. MaxMaskW wide
\* and 1 .. MaxMaskH high
MaskBoxes ==
    { [kind |-> "MaskData", left |-> l, top |-> t, right |-> l + w, bottom |-> t + h] :
        l \in 0 .. 1, t \in 0 .. 1, w \in 1 .. MaxMaskW, h \in 1 .. MaxMaskH }

\* A 2 x 2 pixel layer with the given mask record (or None), with or without
\* a user-layer-mask channel of nbytes bytes
MaskedLayer(mask_data, has_channel, nbytes) ==
    [kind |-> "PixelLayer", name |-> "Base",
     image |-> [kind |-> "image", mode |-> "RGBA", width |-> 2, height |-> 2,
                px |-> [p \in Coords(2, 2) |-> [rgb |-> <<9, 9, 9>>, a |-> 255]]],
     mask_data |-> mask_data,
     channels |-> {"RED", "GREEN", "BLUE", "TRANSPARENCY_MASK"}
                     \cup (IF has_channel THEN {"USER_LAYER_MASK"} ELSE {}),
     mask_channel |-> [i \in 1 .. nbytes |-> (60 * i) % 256]]

\* Documents of another program: that layer below a group
MaskedDocuments ==
    { [kind |-> "psd", width |-> 2, height |-> 2,
       layers |-> << MaskedLayer(mask_data, has_channel, nbytes),
                     [kind |-> "Group", name |-> "Group"] >>] :
        mask_data \in MaskBoxes \cup {NoneV}, has_channel \in BOOLEAN,
        nbytes \in 0 .. (MaxMaskW * MaxMaskH + 1) }

\* Another program replaces the document in ./input
PlaceDocument ==
    /\ ncalls = 0
    /\ \E doc \in MaskedDocuments : fs' = WriteFile(fs, ExternalPath, doc)
    /\ ncalls' = ncalls + 1
    /\ UNCHANGED <<dirs, PSD_TOOLS_AVAILABLE, PYTOSHOP_AVAILABLE, last, prev, inflight>>

\* A caller applies extract_layer_mask to the opened document
ExtractLayerMask ==
    /\ ncalls = 1
    /\ PSD_TOOLS_AVAILABLE
    /\ \E layer_index \in -1 .. 2 :
        LET args == [psd |-> load_psd_file(fs, ExternalPath), layer_index |-> layer_index]
        IN  \E r \in { extract_layer_mask(args.psd, layer_index) } :
                last' = Applied("extract_layer_mask", args, r)
    /\ prev' = last
    /\ ncalls' = ncalls + 1
    /\ UNCHANGED <<fs, dirs, PSD_TOOLS_AVAILABLE, PYTOSHOP_AVAILABLE, inflight>>

\* The host runs the layer loader node on that document
LoadMaskedLayer ==
    /\ ncalls = 1
    /\ \E layer_index \in 0 .. 2, load_mask \in {"true", "false"} :
        LET args == [psd_file |-> ExternalPath, layer_index |-> layer_index,
                     load_mask |-> load_mask]
        IN  \E r \in { load_psd_layer(fs, args.psd_file, layer_index, load_mask) } :
                last' = Call("load_psd_layer", args, "ok", fs,
                             [ret |-> r.ret, exc |-> r.exc, wrote |-> NoneV,
                              psd |-> NoneV, final_output_path |-> NoneV,
                              inner |-> NoneV])
    /\ prev' = last
    /\ ncalls' = ncalls + 1
    /\ UNCHANGED <<fs, dirs, PSD_TOOLS_AVAILABLE, PYTOSHOP_AVAILABLE, inflight>>

NextMask ==
    \/ PlaceDocument
    \/ ExtractLayerMask
    \/ LoadMaskedLayer

SpecMask == Init /\ [][NextMask]_vars

\* The layer an extract_layer_mask call was about, when it is a pixel layer
MaskCall(c) ==
    /\ c.op = "extract_layer_mask"
    /\ c.args.layer_index \in 0 .. (Len(c.args.psd.layers) - 1)
    /\ c.args.psd.layers[c.args.layer_index + 1].kind = "PixelLayer"

\* C24: extract_layer_mask returns None when the layer records no mask data
\* or has no user-layer-mask channel; with a mask it returns a grayscale raster
\* exactly (right - left) wide and (bottom - top) high, the channel's bytes
\* row by row; and when the channel's byte count is not that width * height
\* it returns None and raises nothing.
C24_MaskHasItsOwnBox ==
    MaskCall(last) =>
        LET layer == last.args.psd.layers[last.args.layer_index + 1]
            box == layer.mask_data
        IN  IF IsNone(box) \/ "USER_LAYER_MASK" \notin layer.channels
                THEN IsNone(last.ret)
            ELSE IF Len(layer.mask_channel) # (box.right - box.left) * (box.bottom - box.top)
                THEN IsNone(last.ret)
            ELSE /\ last.ret.kind = "image"
                 /\ last.ret.mode = "L"
                 /\ last.ret.width = box.right - box.left
                 /\ last.ret.height = box.bottom - box.top
                 /\ \A x \in 0 .. (last.ret.width - 1), y \in 0 .. (last.ret.height - 1) :
                       last.ret.px[<<x, y>>] = layer.mask_channel[y * last.ret.width + x + 1]

\* A mask one pixel wide and two high, away from the corner of a 2 x 2 layer,
\* was extracted
C24_Witness ==
    /\ MaskCall(last)
    /\ ~IsNone(last.ret)
    /\ last.ret.width = 1
    /\ last.ret.height = 2
    /\ last.args.psd.layers[1].mask_data.left = 1

\* C25, as the specification states it: for every valid image buffer
\* (channel-last or channel-first, 1, 3 or 4 channels, float or integer)
\* tensor_to_numpy_array gives the same height and width and the same 8-bit
\* samples as tensor_to_pil_image.
C25_NormalizersAgree ==
    last.op = "normalizers" =>
        /\ last.ret.array.shape[1] = last.ret.pil.height
        /\ last.ret.array.shape[2] = last.ret.pil.width
        /\ \A c \in 1 .. Min(3, Len(last.ret.array.pixel)) :
              last.ret.array.pixel[c] = last.ret.pil.px[<<0, 0>>][c]

\* ---------------------------------------------------------------- Lists of different lengths

\* A caller runs process_layers_to_psd with n images, m names and either no
\* mask list or one of k masks
ProcessUnevenLists ==
    /\ ncalls < MaxApplications
    /\ \E n \in 0 .. MaxSlots, m \in 0 .. MaxSlots, k \in -1 .. MaxSlots, io \in IOs :
        LET args == [image_tensors |-> [i \in 1 .. n |-> SlotLayer(i)],
                     layer_names |-> [i \in 1 .. m |-> LayerNames[i]],
                     mask_tensors |-> IF k < 0 THEN NoneV
                                      ELSE List([i \in 1 .. k |-> SlotMask(i)]),
                     output_dir |-> OutputDir, filename_prefix |-> "output"]
        IN  \E r \in { process_layers_to_psd(fs, dirs, args.image_tensors,
                                             args.layer_names, args.mask_tensors,
                                             args.output_dir, args.filename_prefix, io) } :
                /\ fs' = r.files
                /\ dirs' = r.dirs
                /\ last' = Call("process_layers_to_psd", args, io, fs,
                                [ret |-> r.ret, exc |-> r.exc, wrote |-> r.wrote,
                                 psd |-> r.psd, final_output_path |-> NoneV,
                                 inner |-> NoneV])
    /\ prev' = last
    /\ ncalls' = ncalls + 1
    /\ UNCHANGED <<PSD_TOOLS_AVAILABLE, PYTOSHOP_AVAILABLE, inflight>>

NextUneven == ProcessUnevenLists

SpecUneven == Init /\ [][NextUneven]_vars

\* C26, as the specification states it: the document process_layers_to_psd
\* saves has exactly one layer per input image tensor, whatever the lengths
\* of layer_names and mask_tensors.
C26_OneLayerPerImage ==
    (last.op = "process_layers_to_psd" /\ last.ret.success) =>
        /\ last.wrote \in DOMAIN fs
        /\ Len(fs[last.wrote].layers) = Len(last.args.image_tensors)

\* ---------------------------------------------------------------- Combining masks

\* The 8-bit masks that are combined: 2 x 1, every pixel black, grey or white
CombineLevels == {0, 100, 255}
CombineMaskSet == { ndarray2(<<1, 2>>, px) : px \in [Coords(2, 1) -> CombineLevels] }

\* A caller applies PSDMaskUtility.combine_masks to a list of masks
CombineMasks ==
    /\ ncalls < MaxApplications
    /\ ncalls' = ncalls + 1
    /\ \E n \in 0 .. MaxLayers,
          operation \in {"union", "intersection", "difference", "xor"} :
        \E masks \in [1 .. n -> CombineMaskSet] :
        LET args == [masks |-> masks, operation |-> operation]
        IN  \E r \in { combine_masks(masks, operation) } :
                last' = Applied("combine_masks", args, r)
    /\ UNCHANGED <<fs, dirs, PSD_TOOLS_AVAILABLE, PYTOSHOP_AVAILABLE, prev, inflight>>

NextCombine == CombineMasks

SpecCombine == Init /\ [][NextCombine]_vars

\* The fold the specification describes, at one pixel
RECURSIVE Folded(_, _, _, _)
Folded(acc, masks, operation, p) ==
    IF masks = <<>> THEN acc
    ELSE Folded(CASE operation = "union" -> Max(acc, Head(masks).px[p])
                  [] operation = "intersection" -> Min(acc, Head(masks).px[p])
                  [] OTHER -> Max(acc - Head(masks).px[p], 0),
                Tail(masks), operation, p)

\* C27, as the specification states it: combine_masks folds the list left to
\* right with union = max, intersection = min and difference = max(a - b, 0),
\* so that a difference never exceeds the first mask's value at a pixel, and
\* a list of one mask comes back unchanged.
C27_CombineSaturates ==
    ( /\ last.op = "combine_masks"
      /\ Len(last.args.masks) >= 1
      /\ last.args.operation \in {"union", "intersection", "difference"} )
    => /\ ~IsRaise(last.ret)
       /\ \A p \in Coords(2, 1) :
             /\ last.ret.px[p] = Folded(last.args.masks[1].px[p], Tail(last.args.masks),
                                         last.args.operation, p)
             /\ last.args.operation = "difference"
                    => last.ret.px[p] <= last.args.masks[1].px[p]

\* ---------------------------------------------------------------- Name searches

\* The directories the searches run in: with or without "{name}.psd" and the
\* timestamped name, and with the numbered names 1 .. k taken, for no, a few,
\* all but one and all of the numbers the node tries
TakenNumbers == {0, 1, 2, SafetyLimit - 1, SafetyLimit}
TakenFiles(name, now, numbers) ==
    { [q \in S \cup { Path(OutputDir, name, "num", i) : i \in 1 .. k } |-> Corrupt] :
        S \in SUBSET { Path(OutputDir, name, "base", 0), Path(OutputDir, name, "time", now) },
        k \in numbers }

\* The node's _handle_overwrite_mode runs at time `now` in such a directory
HandleOverwriteMode ==
    /\ ncalls < MaxApplications
    /\ ncalls' = ncalls + 1
    /\ \E name \in Prefixes, now \in 0 .. 1, overwrite_mode \in {"false", "true"} :
        \E files \in TakenFiles(name, now, TakenNumbers) :
            LET args == [files |-> files, output_dir |-> OutputDir,
                         filename_prefix |-> name, overwrite_mode |-> overwrite_mode]
            IN  \E r \in { handle_overwrite_mode(files, OutputDir, name, overwrite_mode,
                                                  now) } :
                    last' = Call("_handle_overwrite_mode", args, "ok", fs,
                                 [ret |-> r, exc |-> NoneV, wrote |-> NoneV, psd |-> NoneV,
                                  final_output_path |-> r,
                                  inner |-> [attempts |->
                                      numbered_attempts(files, OutputDir, name, 1)]])
    /\ dirs' = dirs \cup {OutputDir}
    /\ UNCHANGED <<fs, PSD_TOOLS_AVAILABLE, PYTOSHOP_AVAILABLE, prev, inflight>>

\* A caller applies generate_unique_filename in such a directory, with the
\* numbered names up to some k <= MaxFiles taken
UniqueNameSearch ==
    /\ ncalls < MaxApplications
    /\ ncalls' = ncalls + 1
    /\ \E name \in Prefixes, now \in 0 .. 1 :
        \E files \in TakenFiles(name, now, 0 .. MaxFiles) :
            LET args == [files |-> files, base_path |-> name, output_dir |-> OutputDir]
            IN  \E r \in { generate_unique_filename(files, name, OutputDir) } :
                    last' = Applied("generate_unique_filename", args, r)
    /\ UNCHANGED <<fs, dirs, PSD_TOOLS_AVAILABLE, PYTOSHOP_AVAILABLE, prev, inflight>>

NextNames ==
    \/ HandleOverwriteMode
    \/ UniqueNameSearch

SpecNames == Init /\ [][NextNames]_vars

\* C28, as the specification states it: generate_unique_filename returns a
\* name that is not taken, _handle_overwrite_mode tries at most 999 numbered
\* names, and with overwrite disabled the path it returns, also after it ran
\* out of numbers, does not name an existing file.
C28_SearchEndsOnFreeName ==
    /\ last.op = "generate_unique_filename" => ~exists(last.args.files, last.ret)
    /\ last.op = "_handle_overwrite_mode" =>
          /\ last.inner.attempts <= SafetyLimit
          /\ last.args.overwrite_mode = "false" => ~exists(last.args.files, last.ret)

\* C29, as the specification states it: on every successful load_psd_layer
\* call the returned mask has the height and width of the returned image,
\* whether it was read from the file, was absent or was not asked for; the
\* returned layer count is the document's and the returned name is the name
\* of the layer at layer_index.
C29_MaskHasImageSize ==
    (last.op = "load_psd_layer" /\ IsNone(last.exc)) =>
        LET psd == last.before[last.args.psd_file]
        IN  /\ last.ret.mask.shape
                   = <<1, last.ret.image.shape[2], last.ret.image.shape[3]>>
            /\ last.ret.layer_count = Len(psd.layers)
            /\ last.ret.layer_name = psd.layers[last.args.layer_index + 1].name

\* Every layer slot of a node call is None
NoLayerGiven(c) ==
    /\ c.op = "save_psd_layers"
    /\ \A i \in 1 .. NumSlots : IsNone(c.args.layers[i])

\* C30: a call of the multilayer saver node with all ten layer slots None
\* returns None and leaves the file system as it was: no file is written and
\* no directory is created, whatever masks, names and overwrite mode it is given.
C30_NoLayersNoChange ==
    [][ NoLayerGiven(last') =>
            /\ fs' = fs
            /\ dirs' = dirs
            /\ IsNone(last'.ret)
            /\ IsNone(last'.wrote) ]_vars

\* The node was run with no layer but with masks in two slots, the library
\* present, and the output directory still does not exist
C30_Witness ==
    /\ NoLayerGiven(last)
    /\ PSD_TOOLS_AVAILABLE
    /\ ~IsNone(last.args.masks[1])
    /\ ~IsNone(last.args.masks[MaxSlots])
    /\ last.io = "ok"
    /\ OutputDir \notin dirs
    /\ DOMAIN fs = {ExternalPath}

====
